---- MODULE Spec2Model ----
(***************************************************************************)
(* Reconciliation behaviour of the Railway Terraform provider resources:   *)
(* railway_private_network, railway_private_network_endpoint,              *)
(* railway_service_instance and railway_service_limits.                    *)
(*                                                                         *)
(* A run manages resource instances of one kind (chosen in Init).  Every   *)
(* lifecycle handler (Create, Read, Update, Delete) is an action that runs *)
(* from one remote call to the next; the plan and state snapshot handed to *)
(* the handler are taken by the Apply / Refresh / Destroy actions, which   *)
(* stand for Terraform invoking the provider.                              *)
(***************************************************************************)
EXTENDS Integers, Sequences, FiniteSets, TLC

VARIABLES
    kind,       \* resource kind managed in this run: "pn", "ep", "si", "sl"
    st,         \* st[r]: canonical (Terraform) state of instance r, or NoState
    plan,       \* plan[r]: req.Plan / the handler's working `data`
    prior,      \* prior[r]: canonical state when the current cycle began
    op,         \* op[r]: lifecycle operation of the current cycle
    pc,         \* pc[r]: handler position (next handler step), "idle" when none
    res,        \* res[r]: changeKind of the last finished cycle
    diag,       \* diag[r]: summary of the error diagnostic of the cycle, "" if none
    calls,      \* calls[r]: remote calls issued by r in the current cycle, in order
    networks,   \* remote: private networks
    endpoints,  \* remote: private network endpoints
    instances,  \* remote: service instances (with their limits)
    nextId,     \* remote: counter of generated public ids
    ops,        \* number of cycles and out-of-band changes begun so far
    retry,      \* retry[r]: the current cycle re-applies the configuration of
                \* the cycle before it, which ended with an error
    before,     \* before[r]: history recorded by ApplyRecorded: the remote
                \* resources, the number of cycles begun and the operation
                \* planned when the configuration of the current cycle was
                \* first applied; NoRemote where it is not recorded
    faults,     \* number of remote calls that returned an error so far
    remoteProject, \* remote: the project the railway_project data source looks up
    dataSource, \* the data source: the state its Read set, and its diagnostic
    sums,       \* publish script: the lines of the SHA256SUMS file of the release
    script,     \* publish script: its position, its output and its exit status
    registry    \* HCP Terraform registry: what the publish script has put there

\* The data source and the publish script, which are apart from the
\* resources and from each other.
others == <<remoteProject, dataSource, sums, script, registry>>

\* The resources and their remote.
resources == <<kind, st, plan, prior, op, pc, res, diag, calls,
               networks, endpoints, instances, nextId, ops, retry, before, faults>>

vars == <<kind, st, plan, prior, op, pc, res, diag, calls,
          networks, endpoints, instances, nextId, ops, retry, before, faults,
          remoteProject, dataSource, sums, script, registry>>

remoteVars == <<networks, endpoints, instances, nextId>>

(***************************************************************************)
(* Bounds of the model.                                                    *)
(***************************************************************************)
\* Number of cycles (Apply, Refresh, Destroy) and out-of-band changes in a run.
MaxOps == 3

\* Number of remote calls that return an error in a run.
MaxFaults == 1

\* Number of environments of the project that the data source looks up.
MaxEnvironments == 2

\* The latest time of creation of an environment (the times are 1..MaxCreatedAt).
MaxCreatedAt == 2

\* Number of lines of the SHA256SUMS file of a release.
MaxLines == 2

\* The reconciler instances (independent Terraform resources of the same kind).
Res == {1, 2}

(***************************************************************************)
(* Attribute values of the plugin framework: types.String, types.List,     *)
(* types.Bool, types.Int64, types.Float64 are null, unknown or a value.    *)
(***************************************************************************)
Null == [k |-> "null"]
Unknown == [k |-> "unknown"]
V(x) == [k |-> "value", v |-> x]

IsNull(a) == a.k = "null"
IsUnknown(a) == a.k = "unknown"

\* ValueString(): the value, or "" when null or unknown.
ValueString(a) == IF a.k = "value" THEN a.v ELSE ""
\* ValueBool(): the value, or false when null or unknown.
ValueBool(a) == IF a.k = "value" THEN a.v ELSE FALSE
\* ValueInt64(): the value, or 0 when null or unknown.
ValueInt64(a) == IF a.k = "value" THEN a.v ELSE 0
\* ValueFloat64(): the value, or 0 when null or unknown.
ValueFloat64(a) == IF a.k = "value" THEN a.v ELSE 0
\* List.ElementsAs(&s): the elements, none when null or unknown.
ElementsAs(a) == IF a.k = "value" THEN a.v ELSE <<>>
\* ValueStringPointer(): nil when null, else a pointer to ValueString().
ValueStringPointer(a) == IF IsNull(a) THEN Null ELSE V(ValueString(a))
\* ValueBoolPointer(): nil when null, else a pointer to ValueBool().
ValueBoolPointer(a) == IF IsNull(a) THEN Null ELSE V(ValueBool(a))

\* No canonical state (the resource is not in the Terraform state).
NoState == [k |-> "nostate"]

(***************************************************************************)
(* Schemas: per attribute, how it is configured (mode), whether a change   *)
(* forces replacement (RequiresReplace), whether an unknown planned value  *)
(* is replaced by the state's (UseStateForUnknown), and its default.       *)
(***************************************************************************)
Attr(mode, replace, useState, default) ==
    [mode |-> mode, replace |-> replace, useState |-> useState, default |-> default]

PrivateNetworkSchema ==
    [id             |-> Attr("computed", FALSE, TRUE, Null),
     name           |-> Attr("required", TRUE, FALSE, Null),
     project_id     |-> Attr("required", TRUE, FALSE, Null),
     environment_id |-> Attr("required", TRUE, FALSE, Null),
     dns_name       |-> Attr("computed", FALSE, FALSE, Null),
     tags           |-> Attr("optional", FALSE, FALSE, Null)]

\* A faulty variant of the endpoint's schema: service_name is without
\* RequiresReplace, so that a change of it is planned as an update.
PrivateNetworkEndpointSchemaNameInPlace ==
    [id                 |-> Attr("computed", FALSE, TRUE, Null),
     private_network_id |-> Attr("required", TRUE, FALSE, Null),
     service_id         |-> Attr("required", TRUE, FALSE, Null),
     environment_id     |-> Attr("required", TRUE, FALSE, Null),
     service_name       |-> Attr("required", FALSE, FALSE, Null),
     dns_name           |-> Attr("computed", FALSE, FALSE, Null),
     private_ips        |-> Attr("computed", FALSE, FALSE, Null),
     tags               |-> Attr("optional", FALSE, FALSE, Null)]

PrivateNetworkEndpointSchema ==
    [id                 |-> Attr("computed", FALSE, TRUE, Null),
     private_network_id |-> Attr("required", TRUE, FALSE, Null),
     service_id         |-> Attr("required", TRUE, FALSE, Null),
     environment_id     |-> Attr("required", TRUE, FALSE, Null),
     service_name       |-> Attr("required", TRUE, FALSE, Null),
     dns_name           |-> Attr("computed", FALSE, FALSE, Null),
     private_ips        |-> Attr("computed", FALSE, FALSE, Null),
     tags               |-> Attr("optional", FALSE, FALSE, Null)]

ServiceInstanceSchema ==
    [id                            |-> Attr("computed", FALSE, TRUE, Null),
     service_id                    |-> Attr("required", TRUE, FALSE, Null),
     environment_id                |-> Attr("required", TRUE, FALSE, Null),
     source_image                  |-> Attr("optional", FALSE, FALSE, Null),
     source_repo                   |-> Attr("optional", FALSE, FALSE, Null),
     registry_credentials_username |-> Attr("optional", FALSE, FALSE, Null),
     registry_credentials_password |-> Attr("optional", FALSE, FALSE, Null),
     redeploy                      |-> Attr("optional_computed", FALSE, FALSE, V(TRUE)),
     builder                       |-> Attr("optional_computed", FALSE, FALSE, Null),
     build_command                 |-> Attr("optional", FALSE, FALSE, Null),
     start_command                 |-> Attr("optional", FALSE, FALSE, Null),
     pre_deploy_command            |-> Attr("optional", FALSE, FALSE, Null),
     healthcheck_path              |-> Attr("optional", FALSE, FALSE, Null),
     healthcheck_timeout           |-> Attr("optional", FALSE, FALSE, Null),
     restart_policy_type           |-> Attr("optional_computed", FALSE, FALSE, Null),
     restart_policy_max_retries    |-> Attr("optional_computed", FALSE, FALSE, Null),
     sleep_application             |-> Attr("optional", FALSE, FALSE, Null)]

ServiceLimitsSchema ==
    [id             |-> Attr("computed", FALSE, TRUE, Null),
     service_id     |-> Attr("required", TRUE, FALSE, Null),
     environment_id |-> Attr("required", TRUE, FALSE, Null),
     memory_gb      |-> Attr("optional", FALSE, FALSE, Null),
     vcpus          |-> Attr("optional", FALSE, FALSE, Null)]

Schema(k) ==
    CASE k = "pn" -> PrivateNetworkSchema
      [] k = "ep" -> PrivateNetworkEndpointSchema
      [] k = "si" -> ServiceInstanceSchema
      [] k = "sl" -> ServiceLimitsSchema

Attrs(k) == DOMAIN Schema(k)

IsComputed(s) == s.mode \in {"computed", "optional_computed"}

(***************************************************************************)
(* Planning, as the plugin framework and Terraform do it from the schema.  *)
(***************************************************************************)
\* The proposed new value of attribute a: the configured value; else the
\* default; else, for a computed attribute, the prior state's value.
Proposed(k, cfg, old, a) ==
    LET s == Schema(k)[a] IN
    IF ~IsNull(cfg[a]) THEN cfg[a]
    ELSE IF ~IsNull(s.default) THEN s.default
    ELSE IF IsComputed(s) /\ old # NoState THEN old[a]
    ELSE Null

\* The attributes whose proposed value differs from the prior state.
DiffAttrs(k, cfg, old) ==
    IF old = NoState THEN Attrs(k)
    ELSE {a \in Attrs(k) : Proposed(k, cfg, old, a) # old[a]}

\* replace when a differing attribute carries RequiresReplace, update when
\* there is any other difference, no-op when there is none.
PlanKind(k, cfg, old) ==
    IF old = NoState THEN "create"
    ELSE IF \E a \in DiffAttrs(k, cfg, old) : Schema(k)[a].replace THEN "replace"
    ELSE IF DiffAttrs(k, cfg, old) # {} THEN "update"
    ELSE "noop"

\* The planned values given to Create (old = NoState) or Update: a computed
\* attribute without configured value or default is unknown, unless
\* UseStateForUnknown copies the prior state's value.
PlanFor(k, cfg, old) ==
    [a \in Attrs(k) |->
        LET s == Schema(k)[a] IN
        IF ~IsNull(cfg[a]) THEN cfg[a]
        ELSE IF ~IsNull(s.default) THEN s.default
        ELSE IF IsComputed(s)
             THEN IF s.useState /\ old # NoState /\ ~IsNull(old[a]) THEN old[a]
                  ELSE Unknown
        ELSE Null]

(***************************************************************************)
(* Desired configurations (the inputs of a run).                           *)
(***************************************************************************)
PrivateNetworkConfig(name, project, env, tags) ==
    [id |-> Null, name |-> V(name), project_id |-> V(project),
     environment_id |-> V(env), dns_name |-> Null, tags |-> tags]

\* The example of the schema ("internal", with no tags, an empty list of
\* tags or one tag) and its neighbours: one more name, project and
\* environment, so that every immutable attribute can change.  The second
\* instance is configured like the first or with the neighbour name.
PrivateNetworkConfigs(r) ==
    IF r = 1
    THEN {PrivateNetworkConfig("internal", "p1", "e1", Null),
          PrivateNetworkConfig("internal", "p1", "e1", V(<<>>)),
          PrivateNetworkConfig("internal", "p1", "e1", V(<<"production">>)),
          PrivateNetworkConfig("backend", "p1", "e1", Null),
          PrivateNetworkConfig("internal", "p2", "e1", Null),
          PrivateNetworkConfig("internal", "p1", "e2", Null)}
    ELSE {PrivateNetworkConfig("internal", "p1", "e1", Null),
          PrivateNetworkConfig("backend", "p1", "e1", V(<<"internal">>))}

PrivateNetworkEndpointConfig(network, service, env, name, tags) ==
    [id |-> Null, private_network_id |-> V(network), service_id |-> V(service),
     environment_id |-> V(env), service_name |-> V(name), dns_name |-> Null,
     private_ips |-> Null, tags |-> tags]

\* The example of the schema ("api") and its neighbours.
PrivateNetworkEndpointConfigs(r) ==
    IF r = 1
    THEN {PrivateNetworkEndpointConfig("net-a", "s1", "e1", "api", Null),
          PrivateNetworkEndpointConfig("net-a", "s1", "e1", "api", V(<<"api", "backend">>)),
          PrivateNetworkEndpointConfig("net-b", "s1", "e1", "api", Null),
          PrivateNetworkEndpointConfig("net-a", "s2", "e1", "api", Null),
          PrivateNetworkEndpointConfig("net-a", "s1", "e2", "api", Null),
          PrivateNetworkEndpointConfig("net-a", "s1", "e1", "web", Null)}
    ELSE {PrivateNetworkEndpointConfig("net-a", "s1", "e1", "api", Null),
          PrivateNetworkEndpointConfig("net-a", "s1", "e1", "web", V(<<"web">>))}

ServiceInstanceMinimal(service, env) ==
    [id |-> Null, service_id |-> V(service), environment_id |-> V(env),
     source_image |-> Null, source_repo |-> Null,
     registry_credentials_username |-> Null,
     registry_credentials_password |-> Null,
     redeploy |-> Null, builder |-> Null, build_command |-> Null,
     start_command |-> Null, pre_deploy_command |-> Null,
     healthcheck_path |-> Null, healthcheck_timeout |-> Null,
     restart_policy_type |-> Null, restart_policy_max_retries |-> Null,
     sleep_application |-> Null]

\* api_staging of the schema's example.
ServiceInstanceStaging ==
    [ServiceInstanceMinimal("s1", "e1") EXCEPT
        !.source_image = V("ghcr.io/myorg/api:staging"),
        !.registry_credentials_username = V("user"),
        !.registry_credentials_password = V("token"),
        !.sleep_application = V(TRUE),
        !.healthcheck_path = V("/health"),
        !.healthcheck_timeout = V(30)]

\* api_production of the schema's example, in the same environment.
ServiceInstanceProduction ==
    [ServiceInstanceMinimal("s1", "e1") EXCEPT
        !.source_image = V("ghcr.io/myorg/api:v1.2.3"),
        !.registry_credentials_username = V("user"),
        !.registry_credentials_password = V("token"),
        !.restart_policy_type = V("ON_FAILURE"),
        !.restart_policy_max_retries = V(3),
        !.start_command = V("npm run start:prod"),
        !.pre_deploy_command = V(<<"npm run db:migrate">>),
        !.healthcheck_path = V("/health"),
        !.healthcheck_timeout = V(60)]

\* A repository source built with a chosen builder, without redeployment.
ServiceInstanceRepo ==
    [ServiceInstanceMinimal("s1", "e1") EXCEPT
        !.source_repo = V("myorg/api"),
        !.builder = V("RAILPACK"),
        !.build_command = V("npm run build"),
        !.redeploy = V(FALSE)]

ServiceInstanceConfigs(r) ==
    IF r = 1
    THEN {ServiceInstanceMinimal("s1", "e1"), ServiceInstanceStaging,
          ServiceInstanceProduction, ServiceInstanceRepo,
          ServiceInstanceMinimal("s2", "e1"), ServiceInstanceMinimal("s1", "e2")}
    ELSE {}

ServiceLimitsConfig(service, env, memory, cpus) ==
    [id |-> Null, service_id |-> V(service), environment_id |-> V(env),
     memory_gb |-> memory, vcpus |-> cpus]

ServiceLimitsConfigs(r) ==
    IF r = 1
    THEN {ServiceLimitsConfig("s1", "e1", V(2), V(1)),
          ServiceLimitsConfig("s1", "e1", V(4), V(1)),
          ServiceLimitsConfig("s1", "e1", V(2), Null),
          ServiceLimitsConfig("s1", "e1", Null, Null),
          ServiceLimitsConfig("s2", "e1", V(2), V(1)),
          ServiceLimitsConfig("s1", "e2", V(2), V(1))}
    ELSE {}

Configs(k, r) ==
    CASE k = "pn" -> PrivateNetworkConfigs(r)
      [] k = "ep" -> PrivateNetworkEndpointConfigs(r)
      [] k = "si" -> ServiceInstanceConfigs(r)
      [] k = "sl" -> ServiceLimitsConfigs(r)

(***************************************************************************)
(* The remote API (Railway GraphQL), as the generated client exposes it.   *)
(* Every call returns a response or an error.                              *)
(***************************************************************************)
\* ok: the call took effect and returned; error: it failed without effect;
\* lost: it took effect remotely but returned an error (timeout).
Outcomes == IF faults < MaxFaults THEN {"ok", "error", "lost"} ELSE {"ok"}

\* The outcomes of a call that changes nothing remotely.
ReadOutcomes == Outcomes \ {"lost"}

Count(out) == faults' = IF out = "ok" THEN faults ELSE faults + 1

Applied(out) == out \in {"ok", "lost"}

PublicId(prefix, n) == prefix \o "-" \o ToString(n)

DnsNameOf(name) == name \o ".railway.internal"

\* privateNetworkCreateOrGet: the network with the input's natural key
\* (name, project, environment) if there is one, else a new network.
createOrGetPrivateNetwork(nets, nid, input) ==
    LET existing == {n \in nets : /\ n.Name = input.Name
                                  /\ n.ProjectId = input.ProjectId
                                  /\ n.EnvironmentId = input.EnvironmentId}
        created == [PublicId |-> PublicId("net", nid), Name |-> input.Name,
                    ProjectId |-> input.ProjectId,
                    EnvironmentId |-> input.EnvironmentId,
                    DnsName |-> DnsNameOf(input.Name),
                    Tags |-> ElementsAs(input.Tags)]
    IN  IF existing # {}
        THEN [networks |-> nets, nextId |-> nid,
              PrivateNetworkCreateOrGet |-> CHOOSE n \in existing : TRUE]
        ELSE [networks |-> nets \cup {created}, nextId |-> nid + 1,
              PrivateNetworkCreateOrGet |-> created]

\* privateNetworks(environmentId): the networks of the environment.
getPrivateNetworks(nets, environmentId) ==
    {n \in nets : n.EnvironmentId = environmentId}

\* privateNetworksForEnvironmentDelete: removes every network of the environment.
deletePrivateNetworksForEnvironment(nets, environmentId) ==
    {n \in nets : n.EnvironmentId # environmentId}

\* The private addresses of a service: the deployed service s1 has one, the
\* other services have none yet.
PrivateIpsOf(service) == IF service = "s1" THEN <<"10.0.0.1">> ELSE <<>>

\* privateNetworkEndpointCreateOrGet: the endpoint with the input's natural
\* key (network, service, environment, service name) if there is one, else a
\* new endpoint, with the addresses the remote has assigned to the service.
createOrGetPrivateNetworkEndpoint(eps, nid, input) ==
    LET existing == {e \in eps : /\ e.PrivateNetworkId = input.PrivateNetworkId
                                 /\ e.ServiceId = input.ServiceId
                                 /\ e.EnvironmentId = input.EnvironmentId
                                 /\ e.ServiceName = input.ServiceName}
        created == [PublicId |-> PublicId("endpoint", nid),
                    PrivateNetworkId |-> input.PrivateNetworkId,
                    ServiceId |-> input.ServiceId,
                    EnvironmentId |-> input.EnvironmentId,
                    ServiceName |-> input.ServiceName,
                    DnsName |-> DnsNameOf(input.ServiceName),
                    PrivateIps |-> PrivateIpsOf(input.ServiceId),
                    Tags |-> ElementsAs(input.Tags)]
    IN  IF existing # {}
        THEN [endpoints |-> eps, nextId |-> nid,
              PrivateNetworkEndpointCreateOrGet |-> CHOOSE e \in existing : TRUE]
        ELSE [endpoints |-> eps \cup {created}, nextId |-> nid + 1,
              PrivateNetworkEndpointCreateOrGet |-> created]

\* The endpoint of a response of the privateNetworkEndpoint query: publicId
\* and dnsName are pointers, privateIps and tags are lists of pointers. The
\* remote sets every one of them for an endpoint it holds.
PrivateNetworkEndpointOfResponse(e) ==
    [e EXCEPT !.PublicId = V(e.PublicId),
              !.DnsName = V(e.DnsName),
              !.PrivateIps = [i \in DOMAIN e.PrivateIps |-> V(e.PrivateIps[i])],
              !.Tags = [i \in DOMAIN e.Tags |-> V(e.Tags[i])]]

\* privateNetworkEndpoint(environmentId, privateNetworkId, serviceId): the
\* endpoints the query may answer with (none: a null endpoint).
getPrivateNetworkEndpoint(eps, environmentId, privateNetworkId, serviceId) ==
    {PrivateNetworkEndpointOfResponse(e) :
        e \in {x \in eps : /\ x.EnvironmentId = environmentId
                           /\ x.PrivateNetworkId = privateNetworkId
                           /\ x.ServiceId = serviceId}}

\* privateNetworkEndpointDelete(id): removes the endpoint with that public id.
deletePrivateNetworkEndpoint(eps, id) == {e \in eps : e.PublicId # id}

\* The service instance of a service in an environment, as the remote holds
\* it before any configuration.
DefaultInstance(service, env) ==
    [ServiceId |-> service, EnvironmentId |-> env, Source |-> Null,
     RegistryCredentials |-> Null, Builder |-> "NIXPACKS",
     BuildCommand |-> Null, StartCommand |-> Null, PreDeployCommand |-> Null,
     HealthcheckPath |-> Null, HealthcheckTimeout |-> Null,
     RestartPolicyType |-> "ON_FAILURE", RestartPolicyMaxRetries |-> 10,
     SleepApplication |-> Null, MemoryGB |-> Null, VCPUs |-> Null,
     Deployments |-> 0]

InstanceOf(insts, environmentId, serviceId) ==
    {i \in insts : i.EnvironmentId = environmentId /\ i.ServiceId = serviceId}

\* A field of an update input: the remote keeps its value when the input
\* omits the field.
Given(field, old) == IF IsNull(field) THEN old ELSE field

\* serviceInstanceUpdate(environmentId, serviceId, input): sets the fields
\* the input holds on the instance.
updateServiceInstanceWithEnv(insts, environmentId, serviceId, input) ==
    {IF i.EnvironmentId = environmentId /\ i.ServiceId = serviceId
     THEN [i EXCEPT
            !.Source = Given(input.Source, @),
            !.RegistryCredentials = Given(input.RegistryCredentials, @),
            !.Builder = IF IsNull(input.Builder) THEN @ ELSE input.Builder.v,
            !.BuildCommand = Given(input.BuildCommand, @),
            !.StartCommand = Given(input.StartCommand, @),
            !.PreDeployCommand = Given(input.PreDeployCommand, @),
            !.HealthcheckPath = Given(input.HealthcheckPath, @),
            !.HealthcheckTimeout = Given(input.HealthcheckTimeout, @),
            !.RestartPolicyType =
                IF IsNull(input.RestartPolicyType) THEN @
                ELSE input.RestartPolicyType.v,
            !.RestartPolicyMaxRetries =
                IF IsNull(input.RestartPolicyMaxRetries) THEN @
                ELSE input.RestartPolicyMaxRetries.v,
            !.SleepApplication = Given(input.SleepApplication, @)]
     ELSE i : i \in insts}

\* serviceInstanceRedeploy(environmentId, serviceId): one more deployment.
redeployServiceInstanceWithEnv(insts, environmentId, serviceId) ==
    {IF i.EnvironmentId = environmentId /\ i.ServiceId = serviceId
     THEN [i EXCEPT !.Deployments = @ + 1]
     ELSE i : i \in insts}

\* serviceInstanceLimitsUpdate(input): sets the limits the input holds.
updateServiceInstanceLimits(insts, input) ==
    {IF i.EnvironmentId = input.EnvironmentId /\ i.ServiceId = input.ServiceId
     THEN [i EXCEPT !.MemoryGB = Given(input.MemoryGB, @),
                    !.VCPUs = Given(input.VCPUs, @)]
     ELSE i : i \in insts}

(***************************************************************************)
(* How a handler ends, and the record of its remote calls.                 *)
(***************************************************************************)
\* The remote resources.
Remote ==
    [networks |-> networks, endpoints |-> endpoints, instances |-> instances,
     nextId |-> nextId]

\* Nothing is recorded.
NoRemote == [k |-> "noremote"]

\* resp.State.Set / RemoveResource without error diagnostic.
Done(r, newState, changeKind) ==
    /\ st' = [st EXCEPT ![r] = newState]
    /\ pc' = [pc EXCEPT ![r] = "idle"]
    /\ res' = [res EXCEPT ![r] = changeKind]
    /\ UNCHANGED diag

\* A faulty variant of Faulted: the resource is removed from the state when
\* an error is reported.
FaultedClearsState(r, summary) ==
    /\ pc' = [pc EXCEPT ![r] = "idle"]
    /\ res' = [res EXCEPT ![r] = "faulted"]
    /\ diag' = [diag EXCEPT ![r] = summary]
    /\ st' = [st EXCEPT ![r] = NoState]

\* resp.Diagnostics.AddError and return: no state is written, and the
\* state of an import whose Read returns an error is not kept.
Faulted(r, summary) ==
    /\ pc' = [pc EXCEPT ![r] = "idle"]
    /\ res' = [res EXCEPT ![r] = "faulted"]
    /\ diag' = [diag EXCEPT ![r] = summary]
    /\ st' = [st EXCEPT ![r] = IF op[r] = "import" THEN NoState ELSE @]

\* A faulty variant of Deleted: the Create of a replacement is never
\* started, the cycle stays where it is.
DeletedWithoutCreate(r) ==
    IF op[r] = "replace"
    THEN /\ st' = [st EXCEPT ![r] = NoState]
         /\ pc' = [pc EXCEPT ![r] = "Applying"]
         /\ UNCHANGED <<res, diag>>
    ELSE Done(r, NoState, "removed")

\* Delete returned without error: the framework removes the resource from
\* the state; Create follows when the resource is being replaced.
Deleted(r) ==
    IF op[r] = "replace"
    THEN /\ st' = [st EXCEPT ![r] = NoState]
         /\ pc' = [pc EXCEPT ![r] = "Create"]
         /\ UNCHANGED <<res, diag>>
    ELSE Done(r, NoState, "removed")

\* A remote call: the function of the generated client, its input, the
\* error it returned ("" for none) and its response (Null with an error).
Call(fn, input, err, response) ==
    [fn |-> fn, input |-> input, err |-> err, response |-> response]

Issue(r, call) == calls' = [calls EXCEPT ![r] = Append(@, call)]

ErrorOf(out) == IF out = "ok" THEN "" ELSE "Transient"

Answer(out, response) == IF out = "ok" THEN V(response) ELSE Null

\* changeKind of a Read that found the resource.
Observed(old, new) == IF new = old THEN "unchanged" ELSE "drifted"

(***************************************************************************)
(* railway_private_network                                                 *)
(***************************************************************************)
\* Create: the input of createOrGet.  Its tags are a slice, nil (Null) or
\* not: the plan's elements, or an empty slice when the plan has no tags.
PrivateNetworkInput(data) ==
    [Name |-> ValueString(data.name),
     ProjectId |-> ValueString(data.project_id),
     EnvironmentId |-> ValueString(data.environment_id),
     Tags |-> IF ~IsNull(data.tags) THEN V(ElementsAs(data.tags)) ELSE V(<<>>)]

\* A faulty variant of PrivateNetworkCreated: dns_name is not taken from the
\* response.
PrivateNetworkCreatedWithoutDnsName(data, network) ==
    [data EXCEPT !.id = V(network.PublicId),
                 !.tags = IF Len(network.Tags) > 0 THEN V(network.Tags) ELSE @]

\* Create: the state written from the plan and the response.
PrivateNetworkCreated(data, network) ==
    [data EXCEPT !.id = V(network.PublicId),
                 !.dns_name = V(network.DnsName),
                 !.tags = IF Len(network.Tags) > 0 THEN V(network.Tags) ELSE @]

PrivateNetworkCreate(r) ==
    /\ kind = "pn"
    /\ pc[r] = "Create"
    /\ \E out \in Outcomes :
        LET input == PrivateNetworkInput(plan[r])
            remote == createOrGetPrivateNetwork(networks, nextId, input)
            network == remote.PrivateNetworkCreateOrGet
        IN  /\ Issue(r, Call("createOrGetPrivateNetwork", input, ErrorOf(out),
                             Answer(out, network)))
            /\ Count(out)
            /\ IF Applied(out)
               THEN /\ networks' = remote.networks
                    /\ nextId' = remote.nextId
               ELSE UNCHANGED <<networks, nextId>>
            /\ IF out = "ok"
               THEN Done(r, PrivateNetworkCreated(plan[r], network),
                         IF op[r] = "replace" THEN "replaced" ELSE "created")
               ELSE Faulted(r, "Client Error")
    /\ UNCHANGED <<others, kind, retry, before, plan, prior, op, endpoints, instances, ops>>

\* A faulty variant of PrivateNetworkRefreshed: the tags are taken from the
\* response even when it has none.
PrivateNetworkRefreshedAllTags(data, network) ==
    [data EXCEPT !.name = V(network.Name),
                 !.dns_name = V(network.DnsName),
                 !.project_id = V(network.ProjectId),
                 !.environment_id = V(network.EnvironmentId),
                 !.tags = V(network.Tags)]

\* A faulty variant of PrivateNetworkRefreshed: the tags of the response are
\* added to the tags of the state.
PrivateNetworkRefreshedAddingTags(data, network) ==
    [data EXCEPT !.name = V(network.Name),
                 !.dns_name = V(network.DnsName),
                 !.project_id = V(network.ProjectId),
                 !.environment_id = V(network.EnvironmentId),
                 !.tags = IF Len(network.Tags) > 0
                          THEN V((IF IsNull(@) THEN <<>> ELSE @.v) \o network.Tags)
                          ELSE @]

\* Read: the state refreshed from a network of the response.
PrivateNetworkRefreshed(data, network) ==
    [data EXCEPT !.name = V(network.Name),
                 !.dns_name = V(network.DnsName),
                 !.project_id = V(network.ProjectId),
                 !.environment_id = V(network.EnvironmentId),
                 !.tags = IF Len(network.Tags) > 0 THEN V(network.Tags) ELSE @]

\* A faulty variant of PrivateNetworkReadResult: the state is kept when no
\* network of the response has the state's id.
PrivateNetworkReadResultKept(data, response) ==
    LET found == {n \in response : n.PublicId = ValueString(data.id)}
    IN  IF found = {} THEN data
        ELSE [data EXCEPT !.dns_name = V((CHOOSE n \in found : TRUE).DnsName)]

\* Read: the state set from the networks of the environment, NoState
\* (RemoveResource) when none of them has the state's id.
PrivateNetworkReadResult(data, response) ==
    LET found == {n \in response : n.PublicId = ValueString(data.id)}
    IN  IF found = {} THEN NoState
        ELSE PrivateNetworkRefreshed(data, CHOOSE n \in found : TRUE)

PrivateNetworkRead(r) ==
    /\ kind = "pn"
    /\ pc[r] = "Read"
    /\ \E out \in ReadOutcomes :
        LET data == st[r]
            environmentId == ValueString(data.environment_id)
            response == getPrivateNetworks(networks, environmentId)
            new == PrivateNetworkReadResult(data, response)
        IN  /\ Issue(r, Call("getPrivateNetworks", environmentId, ErrorOf(out),
                             Answer(out, response)))
            /\ Count(out)
            /\ IF out # "ok" THEN Faulted(r, "Client Error")
               ELSE IF new = NoState THEN Done(r, NoState, "removed")
               ELSE Done(r, new, Observed(data, new))
    /\ UNCHANGED <<others, kind, retry, before, plan, prior, op, remoteVars, ops>>

\* A faulty variant of PrivateNetworkUpdate: the plan is saved as the new
\* state, as if the network had been updated in place.
PrivateNetworkUpdateInPlace(r) ==
    /\ kind = "pn"
    /\ pc[r] = "Update"
    /\ Done(r, plan[r], "updated")
    /\ UNCHANGED <<others, kind, retry, before, plan, prior, op, diag, calls, remoteVars, ops, faults>>

PrivateNetworkUpdate(r) ==
    /\ kind = "pn"
    /\ pc[r] = "Update"
    /\ Faulted(r, "Update Not Supported")
    /\ UNCHANGED <<others, kind, retry, before, plan, prior, op, calls, remoteVars, ops, faults>>

\* A faulty variant of PrivateNetworkDeleteInput: the project's id is passed
\* as the environment's.
PrivateNetworkDeleteInputProject(data) == ValueString(data.project_id)

\* Delete: the environment whose networks are deleted.
PrivateNetworkDeleteInput(data) == ValueString(data.environment_id)

\* A faulty variant of PrivateNetworkDelete: the delete is scoped to the
\* network of the state and leaves the other networks of the environment.
PrivateNetworkDeleteScoped(r) ==
    /\ kind = "pn"
    /\ pc[r] = "Delete"
    /\ \E out \in Outcomes :
        LET environmentId == PrivateNetworkDeleteInput(st[r])
        IN  /\ Issue(r, Call("deletePrivateNetworksForEnvironment", environmentId,
                             ErrorOf(out), Answer(out, TRUE)))
            /\ Count(out)
            /\ networks' = IF Applied(out)
                           THEN {n \in networks : n.PublicId # ValueString(st[r].id)}
                           ELSE networks
            /\ IF out # "ok" THEN Faulted(r, "Client Error") ELSE Deleted(r)
    /\ UNCHANGED <<others, kind, retry, before, plan, prior, op, endpoints, instances, nextId, ops>>

PrivateNetworkDelete(r) ==
    /\ kind = "pn"
    /\ pc[r] = "Delete"
    /\ \E out \in Outcomes :
        LET environmentId == PrivateNetworkDeleteInput(st[r])
        IN  /\ Issue(r, Call("deletePrivateNetworksForEnvironment", environmentId,
                             ErrorOf(out), Answer(out, TRUE)))
            /\ Count(out)
            /\ networks' = IF Applied(out)
                           THEN deletePrivateNetworksForEnvironment(networks, environmentId)
                           ELSE networks
            /\ IF out # "ok" THEN Faulted(r, "Client Error") ELSE Deleted(r)
    /\ UNCHANGED <<others, kind, retry, before, plan, prior, op, endpoints, instances, nextId, ops>>

(***************************************************************************)
(* railway_private_network_endpoint                                        *)
(***************************************************************************)
PrivateNetworkEndpointInput(data) ==
    [PrivateNetworkId |-> ValueString(data.private_network_id),
     ServiceId |-> ValueString(data.service_id),
     EnvironmentId |-> ValueString(data.environment_id),
     ServiceName |-> ValueString(data.service_name),
     Tags |-> IF ~IsNull(data.tags) THEN V(ElementsAs(data.tags)) ELSE V(<<>>)]

\* A faulty variant of PrivateNetworkEndpointCreated: the id is not taken
\* from the response.
PrivateNetworkEndpointCreatedWithoutId(data, endpoint) ==
    [data EXCEPT !.dns_name = V(endpoint.DnsName),
                 !.private_ips = IF Len(endpoint.PrivateIps) > 0
                                 THEN V(endpoint.PrivateIps) ELSE Null,
                 !.tags = IF Len(endpoint.Tags) > 0 THEN V(endpoint.Tags) ELSE @]

\* Create: the state written from the plan and the response.
PrivateNetworkEndpointCreated(data, endpoint) ==
    [data EXCEPT !.id = V(endpoint.PublicId),
                 !.dns_name = V(endpoint.DnsName),
                 !.private_ips = IF Len(endpoint.PrivateIps) > 0
                                 THEN V(endpoint.PrivateIps) ELSE Null,
                 !.tags = IF Len(endpoint.Tags) > 0 THEN V(endpoint.Tags) ELSE @]

PrivateNetworkEndpointCreate(r) ==
    /\ kind = "ep"
    /\ pc[r] = "Create"
    /\ \E out \in Outcomes :
        LET input == PrivateNetworkEndpointInput(plan[r])
            remote == createOrGetPrivateNetworkEndpoint(endpoints, nextId, input)
            endpoint == remote.PrivateNetworkEndpointCreateOrGet
        IN  /\ Issue(r, Call("createOrGetPrivateNetworkEndpoint", input,
                             ErrorOf(out), Answer(out, endpoint)))
            /\ Count(out)
            /\ IF Applied(out)
               THEN /\ endpoints' = remote.endpoints
                    /\ nextId' = remote.nextId
               ELSE UNCHANGED <<endpoints, nextId>>
            /\ IF out = "ok"
               THEN Done(r, PrivateNetworkEndpointCreated(plan[r], endpoint),
                         IF op[r] = "replace" THEN "replaced" ELSE "created")
               ELSE Faulted(r, "Client Error")
    /\ UNCHANGED <<others, kind, retry, before, plan, prior, op, networks, instances, ops>>

\* Read: a list of pointers converted to the list of the strings pointed
\* to, the nil pointers left out.
NonNil(list) ==
    LET kept == SelectSeq(list, LAMBDA x : ~IsNull(x))
    IN  [i \in 1..Len(kept) |-> kept[i].v]

\* Read: the state set from the endpoint of the response, NoState
\* (RemoveResource) when the response holds no endpoint. id and dns_name
\* are kept when the response has none; private_ips and tags are the non-nil
\* elements of a non-empty list, and private_ips is null and tags are kept
\* when the list is empty.
PrivateNetworkEndpointReadResult(data, endpoint) ==
    IF IsNull(endpoint) THEN NoState
    ELSE [data EXCEPT
            !.id = IF ~IsNull(endpoint.v.PublicId) THEN endpoint.v.PublicId ELSE @,
            !.dns_name = IF ~IsNull(endpoint.v.DnsName) THEN endpoint.v.DnsName ELSE @,
            !.private_ips = IF Len(endpoint.v.PrivateIps) > 0
                            THEN V(NonNil(endpoint.v.PrivateIps)) ELSE Null,
            !.tags = IF Len(endpoint.v.Tags) > 0
                     THEN V(NonNil(endpoint.v.Tags)) ELSE @]

PrivateNetworkEndpointRead(r) ==
    /\ kind = "ep"
    /\ pc[r] = "Read"
    /\ \E out \in ReadOutcomes :
        LET data == st[r]
            envId == ValueString(data.environment_id)
            networkId == ValueString(data.private_network_id)
            serviceId == ValueString(data.service_id)
            matching == getPrivateNetworkEndpoint(endpoints, envId, networkId, serviceId)
        IN  \E endpoint \in IF matching = {} THEN {Null} ELSE {V(e) : e \in matching} :
                LET new == PrivateNetworkEndpointReadResult(data, endpoint)
                IN  /\ Issue(r, Call("getPrivateNetworkEndpoint",
                                     <<envId, networkId, serviceId>>, ErrorOf(out),
                                     IF out = "ok" THEN endpoint ELSE Null))
                    /\ Count(out)
                    /\ IF out # "ok" THEN Faulted(r, "Client Error")
                       ELSE IF new = NoState THEN Done(r, NoState, "removed")
                       ELSE Done(r, new, Observed(data, new))
    /\ UNCHANGED <<others, kind, retry, before, plan, prior, op, remoteVars, ops>>

PrivateNetworkEndpointUpdate(r) ==
    /\ kind = "ep"
    /\ pc[r] = "Update"
    /\ Faulted(r, "Update Not Supported")
    /\ UNCHANGED <<others, kind, retry, before, plan, prior, op, calls, remoteVars, ops, faults>>

\* A faulty variant of PrivateNetworkEndpointDeleteInput: the id of the
\* endpoint's network is passed as the endpoint's.
PrivateNetworkEndpointDeleteInputNetwork(data) == ValueString(data.private_network_id)

\* Delete: the public id of the endpoint that is deleted.
PrivateNetworkEndpointDeleteInput(data) == ValueString(data.id)

PrivateNetworkEndpointDelete(r) ==
    /\ kind = "ep"
    /\ pc[r] = "Delete"
    /\ \E out \in Outcomes :
        LET id == PrivateNetworkEndpointDeleteInput(st[r])
        IN  /\ Issue(r, Call("deletePrivateNetworkEndpoint", id, ErrorOf(out),
                             Answer(out, TRUE)))
            /\ Count(out)
            /\ endpoints' = IF Applied(out)
                            THEN deletePrivateNetworkEndpoint(endpoints, id)
                            ELSE endpoints
            /\ IF out # "ok" THEN Faulted(r, "Client Error") ELSE Deleted(r)
    /\ UNCHANGED <<others, kind, retry, before, plan, prior, op, networks, instances, nextId, ops>>

(***************************************************************************)
(* railway_service_instance                                                *)
(***************************************************************************)
\* A faulty variant of CompositeId: the environment's id comes first.
CompositeIdEnvironmentFirst(data) ==
    ValueString(data.environment_id) \o ":" \o ValueString(data.service_id)

\* fmt.Sprintf("%s:%s", service_id, environment_id)
CompositeId(data) ==
    ValueString(data.service_id) \o ":" \o ValueString(data.environment_id)

buildUpdateInput(data) ==
    [Source |->
        IF ~IsNull(data.source_image) \/ ~IsNull(data.source_repo)
        THEN V([Image |-> ValueStringPointer(data.source_image),
                Repo |-> ValueStringPointer(data.source_repo)])
        ELSE Null,
     RegistryCredentials |->
        IF ~IsNull(data.registry_credentials_username)
           /\ ~IsNull(data.registry_credentials_password)
        THEN V([Username |-> ValueString(data.registry_credentials_username),
                Password |-> ValueString(data.registry_credentials_password)])
        ELSE Null,
     Builder |->
        IF ~IsNull(data.builder) THEN V(ValueString(data.builder)) ELSE Null,
     BuildCommand |->
        IF ~IsNull(data.build_command)
        THEN ValueStringPointer(data.build_command) ELSE Null,
     StartCommand |->
        IF ~IsNull(data.start_command)
        THEN ValueStringPointer(data.start_command) ELSE Null,
     PreDeployCommand |->
        IF ~IsNull(data.pre_deploy_command)
        THEN V(ElementsAs(data.pre_deploy_command)) ELSE Null,
     HealthcheckPath |->
        IF ~IsNull(data.healthcheck_path)
        THEN ValueStringPointer(data.healthcheck_path) ELSE Null,
     HealthcheckTimeout |->
        IF ~IsNull(data.healthcheck_timeout)
        THEN V(ValueInt64(data.healthcheck_timeout)) ELSE Null,
     RestartPolicyType |->
        IF ~IsNull(data.restart_policy_type)
        THEN V(ValueString(data.restart_policy_type)) ELSE Null,
     RestartPolicyMaxRetries |->
        IF ~IsNull(data.restart_policy_max_retries)
        THEN V(ValueInt64(data.restart_policy_max_retries)) ELSE Null,
     SleepApplication |->
        IF ~IsNull(data.sleep_application)
        THEN ValueBoolPointer(data.sleep_application) ELSE Null]

\* A faulty variant of readServiceInstance: pre_deploy_command is read from
\* the instance as the other build settings are.
readServiceInstanceWithPreDeploy(data, instance) ==
    [data EXCEPT
        !.source_image = IF ~IsNull(instance.Source)
                         THEN instance.Source.v.Image ELSE @,
        !.source_repo = IF ~IsNull(instance.Source)
                        THEN instance.Source.v.Repo ELSE @,
        !.builder = V(instance.Builder),
        !.build_command = instance.BuildCommand,
        !.start_command = instance.StartCommand,
        !.pre_deploy_command = instance.PreDeployCommand,
        !.healthcheck_path = instance.HealthcheckPath,
        !.healthcheck_timeout = instance.HealthcheckTimeout,
        !.restart_policy_type = V(instance.RestartPolicyType),
        !.restart_policy_max_retries = V(instance.RestartPolicyMaxRetries),
        !.sleep_application = instance.SleepApplication]

\* A faulty variant of readServiceInstance: builder is left as planned.
readServiceInstanceKeepingBuilder(data, instance) ==
    [data EXCEPT
        !.source_image = IF ~IsNull(instance.Source)
                         THEN instance.Source.v.Image ELSE @,
        !.source_repo = IF ~IsNull(instance.Source)
                        THEN instance.Source.v.Repo ELSE @,
        !.build_command = instance.BuildCommand,
        !.start_command = instance.StartCommand,
        !.pre_deploy_command = IF IsUnknown(@) THEN Null ELSE @,
        !.healthcheck_path = instance.HealthcheckPath,
        !.healthcheck_timeout = instance.HealthcheckTimeout,
        !.restart_policy_type = V(instance.RestartPolicyType),
        !.restart_policy_max_retries = V(instance.RestartPolicyMaxRetries),
        !.sleep_application = instance.SleepApplication]

\* readServiceInstance after a successful query: data merged with the
\* instance of the response.
readServiceInstance(data, instance) ==
    [data EXCEPT
        !.source_image = IF ~IsNull(instance.Source)
                         THEN instance.Source.v.Image ELSE @,
        !.source_repo = IF ~IsNull(instance.Source)
                        THEN instance.Source.v.Repo ELSE @,
        !.builder = V(instance.Builder),
        !.build_command = instance.BuildCommand,
        !.start_command = instance.StartCommand,
        !.pre_deploy_command = IF IsUnknown(@) THEN Null ELSE @,
        !.healthcheck_path = instance.HealthcheckPath,
        !.healthcheck_timeout = instance.HealthcheckTimeout,
        !.restart_policy_type = V(instance.RestartPolicyType),
        !.restart_policy_max_retries = V(instance.RestartPolicyMaxRetries),
        !.sleep_application = instance.SleepApplication]

\* The outcome of a call on the instance of data: an error when the remote
\* has no such instance.
OnInstance(data, out) ==
    IF InstanceOf(instances, ValueString(data.environment_id),
                  ValueString(data.service_id)) = {}
    THEN "error" ELSE out

\* The error of that call: the remote reports the missing instance.
ErrorOn(data, out) ==
    IF InstanceOf(instances, ValueString(data.environment_id),
                  ValueString(data.service_id)) = {}
    THEN "NotFound" ELSE ErrorOf(out)

\* A faulty variant of ServiceInstanceUpdateCall: the redeployment follows
\* the update whatever the value of redeploy.
ServiceInstanceUpdateCallAlwaysRedeploys(r, redeployAt, readAt) ==
    \E out \in Outcomes :
        LET data == plan[r]
            input == buildUpdateInput(data)
            environmentId == ValueString(data.environment_id)
            serviceId == ValueString(data.service_id)
            result == OnInstance(data, out)
        IN  /\ Issue(r, Call("updateServiceInstanceWithEnv", input,
                             ErrorOn(data, out), Answer(result, TRUE)))
            /\ Count(out)
            /\ instances' = IF Applied(result)
                            THEN updateServiceInstanceWithEnv(instances,
                                    environmentId, serviceId, input)
                            ELSE instances
            /\ IF result # "ok" THEN Faulted(r, "Client Error")
               ELSE /\ pc' = [pc EXCEPT ![r] = redeployAt]
                    /\ UNCHANGED <<st, res, diag>>

\* A faulty variant of ServiceInstanceUpdateCall: the state is written as
\* soon as the update has returned, before the redeployment and the read-back.
ServiceInstanceUpdateCallSavesEarly(r, redeployAt, readAt) ==
    \E out \in Outcomes :
        LET data == plan[r]
            input == buildUpdateInput(data)
            environmentId == ValueString(data.environment_id)
            serviceId == ValueString(data.service_id)
            result == OnInstance(data, out)
        IN  /\ Issue(r, Call("updateServiceInstanceWithEnv", input,
                             ErrorOn(data, out), Answer(result, TRUE)))
            /\ Count(out)
            /\ instances' = IF Applied(result)
                            THEN updateServiceInstanceWithEnv(instances,
                                    environmentId, serviceId, input)
                            ELSE instances
            /\ IF result # "ok" THEN Faulted(r, "Client Error")
               ELSE /\ pc' = [pc EXCEPT ![r] =
                                IF ValueBool(data.redeploy) THEN redeployAt ELSE readAt]
                    /\ st' = [st EXCEPT ![r] = data]
                    /\ UNCHANGED <<res, diag>>

\* Create and Update up to the return of updateServiceInstanceWithEnv.
ServiceInstanceUpdateCall(r, redeployAt, readAt) ==
    \E out \in Outcomes :
        LET data == plan[r]
            input == buildUpdateInput(data)
            environmentId == ValueString(data.environment_id)
            serviceId == ValueString(data.service_id)
            result == OnInstance(data, out)
        IN  /\ Issue(r, Call("updateServiceInstanceWithEnv", input,
                             ErrorOn(data, out), Answer(result, TRUE)))
            /\ Count(out)
            /\ instances' = IF Applied(result)
                            THEN updateServiceInstanceWithEnv(instances,
                                    environmentId, serviceId, input)
                            ELSE instances
            /\ IF result # "ok" THEN Faulted(r, "Client Error")
               ELSE /\ pc' = [pc EXCEPT ![r] =
                                IF ValueBool(data.redeploy) THEN redeployAt ELSE readAt]
                    /\ UNCHANGED <<st, res, diag>>

\* A faulty variant of ServiceInstanceRedeployCall: the error of the
\* redeployment is ignored and the handler goes on to read back.
ServiceInstanceRedeployCallIgnoringError(r, readAt) ==
    \E out \in Outcomes :
        LET data == plan[r]
            environmentId == ValueString(data.environment_id)
            serviceId == ValueString(data.service_id)
            result == OnInstance(data, out)
        IN  /\ Issue(r, Call("redeployServiceInstanceWithEnv",
                             <<environmentId, serviceId>>,
                             ErrorOn(data, out), Answer(result, TRUE)))
            /\ Count(out)
            /\ instances' = IF Applied(result)
                            THEN redeployServiceInstanceWithEnv(instances,
                                    environmentId, serviceId)
                            ELSE instances
            /\ pc' = [pc EXCEPT ![r] = readAt]
            /\ UNCHANGED <<st, res, diag>>

\* Create and Update up to the return of redeployServiceInstanceWithEnv.
ServiceInstanceRedeployCall(r, readAt) ==
    \E out \in Outcomes :
        LET data == plan[r]
            environmentId == ValueString(data.environment_id)
            serviceId == ValueString(data.service_id)
            result == OnInstance(data, out)
        IN  /\ Issue(r, Call("redeployServiceInstanceWithEnv",
                             <<environmentId, serviceId>>,
                             ErrorOn(data, out), Answer(result, TRUE)))
            /\ Count(out)
            /\ instances' = IF Applied(result)
                            THEN redeployServiceInstanceWithEnv(instances,
                                    environmentId, serviceId)
                            ELSE instances
            /\ IF result # "ok" THEN Faulted(r, "Client Error")
               ELSE /\ pc' = [pc EXCEPT ![r] = readAt]
                    /\ UNCHANGED <<st, res, diag>>

\* readServiceInstance on data, and the state written when it succeeds.
ServiceInstanceReadCall(r, data, changeKind) ==
    \E out \in ReadOutcomes :
        LET environmentId == ValueString(data.environment_id)
            serviceId == ValueString(data.service_id)
            response == InstanceOf(instances, environmentId, serviceId)
            result == OnInstance(data, out)
        IN  /\ Issue(r, Call("getServiceInstanceForResource",
                             <<environmentId, serviceId>>, ErrorOn(data, out),
                             IF result = "ok"
                             THEN V(CHOOSE i \in response : TRUE) ELSE Null))
            /\ Count(out)
            /\ IF result # "ok" THEN Faulted(r, "Client Error")
               ELSE LET new == readServiceInstance(data, CHOOSE i \in response : TRUE)
                    IN  Done(r, new, IF changeKind = "read"
                                     THEN Observed(data, new) ELSE changeKind)

ServiceInstanceCreate(r) ==
    /\ kind = "si"
    /\ pc[r] = "Create"
    /\ ServiceInstanceUpdateCall(r, "CreateRedeploy", "CreateRead")
    /\ UNCHANGED <<others, kind, retry, before, plan, prior, op, networks, endpoints, nextId, ops>>

ServiceInstanceCreateRedeploy(r) ==
    /\ kind = "si"
    /\ pc[r] = "CreateRedeploy"
    /\ ServiceInstanceRedeployCall(r, "CreateRead")
    /\ UNCHANGED <<others, kind, retry, before, plan, prior, op, networks, endpoints, nextId, ops>>

ServiceInstanceCreateRead(r) ==
    /\ kind = "si"
    /\ pc[r] = "CreateRead"
    /\ ServiceInstanceReadCall(r, [plan[r] EXCEPT !.id = V(CompositeId(plan[r]))],
                               IF op[r] = "replace" THEN "replaced" ELSE "created")
    /\ UNCHANGED <<others, kind, retry, before, plan, prior, op, remoteVars, ops>>

ServiceInstanceRead(r) ==
    /\ kind = "si"
    /\ pc[r] = "Read"
    /\ ServiceInstanceReadCall(r, st[r], "read")
    /\ UNCHANGED <<others, kind, retry, before, plan, prior, op, remoteVars, ops>>

ServiceInstanceUpdate(r) ==
    /\ kind = "si"
    /\ pc[r] = "Update"
    /\ ServiceInstanceUpdateCall(r, "UpdateRedeploy", "UpdateRead")
    /\ UNCHANGED <<others, kind, retry, before, plan, prior, op, networks, endpoints, nextId, ops>>

ServiceInstanceUpdateRedeploy(r) ==
    /\ kind = "si"
    /\ pc[r] = "UpdateRedeploy"
    /\ ServiceInstanceRedeployCall(r, "UpdateRead")
    /\ UNCHANGED <<others, kind, retry, before, plan, prior, op, networks, endpoints, nextId, ops>>

ServiceInstanceUpdateRead(r) ==
    /\ kind = "si"
    /\ pc[r] = "UpdateRead"
    /\ ServiceInstanceReadCall(r, plan[r], "updated")
    /\ UNCHANGED <<others, kind, retry, before, plan, prior, op, remoteVars, ops>>

\* Delete only logs; the framework then removes the resource from the state.
ServiceInstanceDelete(r) ==
    /\ kind = "si"
    /\ pc[r] = "Delete"
    /\ Deleted(r)
    /\ UNCHANGED <<others, kind, retry, before, plan, prior, op, calls, remoteVars, ops, faults>>

(***************************************************************************)
(* railway_service_limits                                                  *)
(***************************************************************************)
buildLimitsInput(data) ==
    [ServiceId |-> ValueString(data.service_id),
     EnvironmentId |-> ValueString(data.environment_id),
     MemoryGB |-> IF ~IsNull(data.memory_gb)
                  THEN V(ValueFloat64(data.memory_gb)) ELSE Null,
     VCPUs |-> IF ~IsNull(data.vcpus) THEN V(ValueFloat64(data.vcpus)) ELSE Null]

\* Create and Update: updateServiceInstanceLimits, then the state written.
ServiceLimitsUpdateCall(r, new, changeKind) ==
    \E out \in Outcomes :
        LET data == plan[r]
            input == buildLimitsInput(data)
            result == OnInstance(data, out)
        IN  /\ Issue(r, Call("updateServiceInstanceLimits", input,
                             ErrorOn(data, out), Answer(result, TRUE)))
            /\ Count(out)
            /\ instances' = IF Applied(result)
                            THEN updateServiceInstanceLimits(instances, input)
                            ELSE instances
            /\ IF result # "ok" THEN Faulted(r, "Client Error")
               ELSE Done(r, new, changeKind)

ServiceLimitsCreate(r) ==
    /\ kind = "sl"
    /\ pc[r] = "Create"
    /\ ServiceLimitsUpdateCall(r, [plan[r] EXCEPT !.id = V(CompositeId(plan[r]))],
                               IF op[r] = "replace" THEN "replaced" ELSE "created")
    /\ UNCHANGED <<others, kind, retry, before, plan, prior, op, networks, endpoints, nextId, ops>>

\* A faulty variant of ServiceLimitsReadResult: the limits are cleared, as
\* if read from a remote that returns none.
ServiceLimitsReadResultCleared(data) ==
    [data EXCEPT !.memory_gb = Null, !.vcpus = Null]

\* Read: the state set is the state it was given.
ServiceLimitsReadResult(data) == data

ServiceLimitsRead(r) ==
    /\ kind = "sl"
    /\ pc[r] = "Read"
    /\ LET new == ServiceLimitsReadResult(st[r])
       IN  Done(r, new, Observed(st[r], new))
    /\ UNCHANGED <<others, kind, retry, before, plan, prior, op, calls, remoteVars, ops, faults>>

ServiceLimitsUpdate(r) ==
    /\ kind = "sl"
    /\ pc[r] = "Update"
    /\ ServiceLimitsUpdateCall(r, plan[r], "updated")
    /\ UNCHANGED <<others, kind, retry, before, plan, prior, op, networks, endpoints, nextId, ops>>

\* A faulty variant of ServiceLimitsDelete: the limits of the instance are
\* removed remotely.
ServiceLimitsDeleteResets(r) ==
    /\ kind = "sl"
    /\ pc[r] = "Delete"
    /\ Issue(r, Call("updateServiceInstanceLimits", buildLimitsInput(st[r]), "", V(TRUE)))
    /\ instances' = {IF /\ i.ServiceId = ValueString(st[r].service_id)
                        /\ i.EnvironmentId = ValueString(st[r].environment_id)
                     THEN [i EXCEPT !.MemoryGB = Null, !.VCPUs = Null]
                     ELSE i : i \in instances}
    /\ Deleted(r)
    /\ UNCHANGED <<others, kind, retry, before, plan, prior, op, networks, endpoints, nextId, ops, faults>>

\* Delete only logs; the framework then removes the resource from the state.
ServiceLimitsDelete(r) ==
    /\ kind = "sl"
    /\ pc[r] = "Delete"
    /\ Deleted(r)
    /\ UNCHANGED <<others, kind, retry, before, plan, prior, op, calls, remoteVars, ops, faults>>

(***************************************************************************)
(* Changes made to the remote resources by others than the provider.       *)
(***************************************************************************)
\* The remote resources that an instance's canonical state refers to.
Managed(x) ==
    \E r \in Res :
        /\ st[r] # NoState
        /\ IF kind \in {"pn", "ep"}
           THEN x.PublicId = ValueString(st[r].id)
           ELSE /\ x.ServiceId = ValueString(st[r].service_id)
                /\ x.EnvironmentId = ValueString(st[r].environment_id)

\* A managed network, endpoint or service instance is deleted.
OutOfBandDelete ==
    /\ ops < MaxOps
    /\ ops' = ops + 1
    /\ CASE kind = "pn" ->
                /\ \E n \in networks : Managed(n) /\ networks' = networks \ {n}
                /\ UNCHANGED <<endpoints, instances>>
         [] kind = "ep" ->
                /\ \E e \in endpoints : Managed(e) /\ endpoints' = endpoints \ {e}
                /\ UNCHANGED <<networks, instances>>
         [] kind \in {"si", "sl"} ->
                /\ \E i \in instances : Managed(i) /\ instances' = instances \ {i}
                /\ UNCHANGED <<networks, endpoints>>
    /\ UNCHANGED <<others, kind, retry, before, st, plan, prior, op, pc, res, diag, calls, nextId, faults>>

\* The tags of a managed network or endpoint, the settings or the limits of
\* a managed service instance are changed.
OutOfBandChange ==
    /\ ops < MaxOps
    /\ ops' = ops + 1
    /\ CASE kind = "pn" ->
                /\ \E n \in networks, t \in {<<>>, <<"ops">>} :
                        /\ Managed(n)
                        /\ n.Tags # t
                        /\ networks' = (networks \ {n}) \cup {[n EXCEPT !.Tags = t]}
                /\ UNCHANGED <<endpoints, instances>>
         [] kind = "ep" ->
                /\ \E e \in endpoints, t \in {<<>>, <<"ops">>} :
                        /\ Managed(e)
                        /\ e.Tags # t
                        /\ endpoints' = (endpoints \ {e}) \cup {[e EXCEPT !.Tags = t]}
                /\ UNCHANGED <<networks, instances>>
         [] kind = "si" ->
                /\ \E i \in instances :
                     \E j \in {[i EXCEPT !.Source = Null, !.StartCommand = Null],
                                [i EXCEPT !.Source = V([Image |-> V("nginx"), Repo |-> Null]),
                                          !.StartCommand = V("nginx")]} :
                        /\ Managed(i)
                        /\ j # i
                        /\ instances' = (instances \ {i}) \cup {j}
                /\ UNCHANGED <<networks, endpoints>>
         [] kind = "sl" ->
                /\ \E i \in instances :
                        /\ Managed(i)
                        /\ i.MemoryGB # V(8)
                        /\ instances' = (instances \ {i}) \cup {[i EXCEPT !.MemoryGB = V(8)]}
                /\ UNCHANGED <<networks, endpoints>>
    /\ UNCHANGED <<others, kind, retry, before, st, plan, prior, op, pc, res, diag, calls, nextId, faults>>

(***************************************************************************)
(* Terraform: the cycles it starts on a resource instance.                 *)
(***************************************************************************)
Begin(r, o, p, at) ==
    /\ op' = [op EXCEPT ![r] = o]
    /\ plan' = [plan EXCEPT ![r] = p]
    /\ pc' = [pc EXCEPT ![r] = at]
    /\ prior' = [prior EXCEPT ![r] = st[r]]
    /\ calls' = [calls EXCEPT ![r] = <<>>]
    /\ diag' = [diag EXCEPT ![r] = ""]
    /\ ops' = ops + 1

\* terraform apply re-applies to r the configuration whose cycle has just
\* ended with an error: the plan of cfg has the values of the plan of that
\* cycle, but for the attributes a plan copies from the state.
Reapplied(r, cfg) ==
    /\ res[r] = "faulted"
    /\ op[r] \in {"create", "replace", "update"}
    /\ \A a \in Attrs(kind) :
            \/ Schema(kind)[a].useState
            \/ PlanFor(kind, cfg, NoState)[a] = plan[r][a]

\* The cycle that terraform apply begins on r with desired configuration
\* cfg: Create when there is no state, Delete then Create when the plan
\* requires replacement, Update for any other difference, nothing when
\* there is none.
Planned(r, cfg) ==
    LET pk == PlanKind(kind, cfg, st[r])
    IN  /\ retry' = [retry EXCEPT ![r] = Reapplied(r, cfg)]
        /\ CASE pk = "create" ->
                   /\ Begin(r, pk, PlanFor(kind, cfg, NoState), "Create")
                   /\ UNCHANGED res
             [] pk = "replace" ->
                   /\ Begin(r, pk, PlanFor(kind, cfg, NoState), "Delete")
                   /\ UNCHANGED res
             [] pk = "update" ->
                   /\ Begin(r, pk, PlanFor(kind, cfg, st[r]), "Update")
                   /\ UNCHANGED res
             [] pk = "noop" ->
                   /\ Begin(r, pk, st[r], "idle")
                   /\ res' = [res EXCEPT ![r] = "unchanged"]

\* terraform apply with one of the desired configurations.
Apply(r) ==
    /\ pc[r] = "idle"
    /\ ops < MaxOps
    /\ \E cfg \in Configs(kind, r) : Planned(r, cfg)
    /\ UNCHANGED <<others, kind, before, st, remoteVars, faults>>

\* Apply, with the remote resources, the number of cycles begun and the
\* operation planned recorded as they are when a configuration is applied
\* for the first time, and kept when the configuration of a cycle that
\* ended with an error is applied again.
ApplyRecorded(r) ==
    /\ pc[r] = "idle"
    /\ ops < MaxOps
    /\ \E cfg \in Configs(kind, r) :
            /\ Planned(r, cfg)
            /\ before' = [before EXCEPT ![r] =
                              IF Reapplied(r, cfg) THEN @
                              ELSE [remote |-> Remote, ops |-> ops,
                                    op |-> PlanKind(kind, cfg, st[r])]]
    /\ UNCHANGED <<others, kind, st, remoteVars, faults>>

\* terraform refresh: Read of the resource in the state. A Read changes
\* nothing remotely, and one may still follow the last cycle of the run.
Refresh(r) ==
    /\ pc[r] = "idle"
    /\ ops <= MaxOps
    /\ st[r] # NoState
    /\ Begin(r, "read", plan[r], "Read")
    /\ retry' = [retry EXCEPT ![r] = FALSE]
    /\ before' = [before EXCEPT ![r] = NoRemote]
    /\ UNCHANGED <<others, kind, st, res, remoteVars, faults>>

\* terraform destroy: Delete of the resource in the state.
Destroy(r) ==
    /\ pc[r] = "idle"
    /\ ops < MaxOps
    /\ st[r] # NoState
    /\ Begin(r, "delete", plan[r], "Delete")
    /\ retry' = [retry EXCEPT ![r] = FALSE]
    /\ before' = [before EXCEPT ![r] = NoRemote]
    /\ UNCHANGED <<others, kind, st, res, remoteVars, faults>>

\* The identities and natural keys of the remote networks or endpoints.
RemoteKeys ==
    IF kind = "pn"
    THEN {<<n.PublicId, <<n.Name, n.ProjectId, n.EnvironmentId>>>> : n \in networks}
    ELSE {<<e.PublicId, <<e.PrivateNetworkId, e.ServiceId, e.EnvironmentId,
                          e.ServiceName>>>> : e \in endpoints}

RemoteIds == {x[1] : x \in RemoteKeys}

\* The identifiers terraform import is given: the public id of a remote
\* network or endpoint, the composite id of a service instance.
ImportIds ==
    IF kind \in {"pn", "ep"} THEN RemoteIds
    ELSE {i.ServiceId \o ":" \o i.EnvironmentId : i \in instances}

\* resource.ImportStatePassthroughID(ctx, path.Root("id"), req, resp): a
\* state that holds the given id and no other attribute.
ImportedState(k, id) ==
    [a \in Attrs(k) |-> IF a = "id" THEN V(id) ELSE Null]

\* terraform import: ImportState, then Read of the state it returned.
ImportState(r) ==
    /\ pc[r] = "idle"
    /\ ops < MaxOps
    /\ st[r] = NoState
    /\ \E id \in ImportIds :
            st' = [st EXCEPT ![r] = ImportedState(kind, id)]
    /\ Begin(r, "import", plan[r], "Read")
    /\ retry' = [retry EXCEPT ![r] = FALSE]
    /\ before' = [before EXCEPT ![r] = NoRemote]
    /\ UNCHANGED <<others, kind, res, remoteVars, faults>>

(***************************************************************************)
(* The specification.                                                      *)
(***************************************************************************)
Kinds == {"pn", "ep", "si", "sl"}

\* The services and environments of the project: each service has an
\* instance in each environment.
Services == {"s1", "s2"}
Environments == {"e1", "e2"}

NoPlan == [k |-> "noplan"]

\* The service instances of the project before any cycle.
InitialInstances(k) ==
    IF k \in {"si", "sl"}
    THEN {DefaultInstance(s, e) : s \in Services, e \in Environments}
    ELSE {}

\* No data source is read and no release is published in a run of the
\* resources.
OthersIdle ==
    /\ remoteProject = Null
    /\ dataSource = [data |-> NoState, diag |-> ""]
    /\ sums = <<>>
    /\ script = [at |-> "idle", line |-> 0, out |-> <<>>, status |-> Null]
    /\ registry = [version |-> FALSE, shasums |-> FALSE, sig |-> FALSE,
                   platforms |-> {}, binaries |-> {}]

Init ==
    /\ kind \in Kinds
    /\ st = [r \in Res |-> NoState]
    /\ plan = [r \in Res |-> NoPlan]
    /\ prior = [r \in Res |-> NoState]
    /\ op = [r \in Res |-> "none"]
    /\ pc = [r \in Res |-> "idle"]
    /\ res = [r \in Res |-> "none"]
    /\ diag = [r \in Res |-> ""]
    /\ calls = [r \in Res |-> <<>>]
    /\ networks = {}
    /\ endpoints = {}
    /\ instances = InitialInstances(kind)
    /\ nextId = 1
    /\ ops = 0
    /\ retry = [r \in Res |-> FALSE]
    /\ before = [r \in Res |-> NoRemote]
    /\ faults = 0
    /\ OthersIdle

Next ==
    \/ OutOfBandDelete
    \/ OutOfBandChange
    \/ \E r \in Res :
        \/ Apply(r)
        \/ Refresh(r)
        \/ Destroy(r)
        \/ ImportState(r)
        \/ PrivateNetworkCreate(r)
        \/ PrivateNetworkRead(r)
        \/ PrivateNetworkUpdate(r)
        \/ PrivateNetworkDelete(r)
        \/ PrivateNetworkEndpointCreate(r)
        \/ PrivateNetworkEndpointRead(r)
        \/ PrivateNetworkEndpointUpdate(r)
        \/ PrivateNetworkEndpointDelete(r)
        \/ ServiceInstanceCreate(r)
        \/ ServiceInstanceCreateRedeploy(r)
        \/ ServiceInstanceCreateRead(r)
        \/ ServiceInstanceRead(r)
        \/ ServiceInstanceUpdate(r)
        \/ ServiceInstanceUpdateRedeploy(r)
        \/ ServiceInstanceUpdateRead(r)
        \/ ServiceInstanceDelete(r)
        \/ ServiceLimitsCreate(r)
        \/ ServiceLimitsRead(r)
        \/ ServiceLimitsUpdate(r)
        \/ ServiceLimitsDelete(r)

Spec == Init /\ [][Next]_vars

\* The next step of the handler that Terraform has invoked on r.
Handle(r) ==
    \/ PrivateNetworkCreate(r)
    \/ PrivateNetworkRead(r)
    \/ PrivateNetworkUpdate(r)
    \/ PrivateNetworkDelete(r)
    \/ PrivateNetworkEndpointCreate(r)
    \/ PrivateNetworkEndpointRead(r)
    \/ PrivateNetworkEndpointUpdate(r)
    \/ PrivateNetworkEndpointDelete(r)
    \/ ServiceInstanceCreate(r)
    \/ ServiceInstanceCreateRedeploy(r)
    \/ ServiceInstanceCreateRead(r)
    \/ ServiceInstanceRead(r)
    \/ ServiceInstanceUpdate(r)
    \/ ServiceInstanceUpdateRedeploy(r)
    \/ ServiceInstanceUpdateRead(r)
    \/ ServiceInstanceDelete(r)
    \/ ServiceLimitsCreate(r)
    \/ ServiceLimitsRead(r)
    \/ ServiceLimitsUpdate(r)
    \/ ServiceLimitsDelete(r)

\* The initial states of the runs whose fair behaviours are explored: runs
\* of one cycle less.
ShortInit ==
    /\ kind \in Kinds
    /\ st = [r \in Res |-> NoState]
    /\ plan = [r \in Res |-> NoPlan]
    /\ prior = [r \in Res |-> NoState]
    /\ op = [r \in Res |-> "none"]
    /\ pc = [r \in Res |-> "idle"]
    /\ res = [r \in Res |-> "none"]
    /\ diag = [r \in Res |-> ""]
    /\ calls = [r \in Res |-> <<>>]
    /\ networks = {}
    /\ endpoints = {}
    /\ instances = InitialInstances(kind)
    /\ nextId = 1
    /\ ops = 1
    /\ retry = [r \in Res |-> FALSE]
    /\ before = [r \in Res |-> NoRemote]
    /\ faults = 0
    /\ OthersIdle

\* The runs of Spec, with the remote resources recorded when a
\* configuration is applied for the first time.
RetryNext ==
    \/ OutOfBandDelete
    \/ OutOfBandChange
    \/ \E r \in Res :
        \/ ApplyRecorded(r)
        \/ Refresh(r)
        \/ Destroy(r)
        \/ ImportState(r)
        \/ Handle(r)

RetrySpec == Init /\ [][RetryNext]_vars

\* An invoked handler runs on: each of its remote calls returns, with a
\* response or with an error (a timeout of the client included).
FairSpec == ShortInit /\ [][Next]_vars /\ \A r \in Res : WF_vars(Handle(r))

(***************************************************************************)
(* railway_project (data source)                                           *)
(***************************************************************************)
\* No resource is managed in a run of the data source or of the publish
\* script.
ResourcesIdle ==
    /\ kind = "none"
    /\ st = [r \in Res |-> NoState]
    /\ plan = [r \in Res |-> NoPlan]
    /\ prior = [r \in Res |-> NoState]
    /\ op = [r \in Res |-> "none"]
    /\ pc = [r \in Res |-> "idle"]
    /\ res = [r \in Res |-> "none"]
    /\ diag = [r \in Res |-> ""]
    /\ calls = [r \in Res |-> <<>>]
    /\ networks = {}
    /\ endpoints = {}
    /\ instances = {}
    /\ nextId = 1
    /\ ops = 0
    /\ retry = [r \in Res |-> FALSE]
    /\ before = [r \in Res |-> NoRemote]
    /\ faults = 0

\* The ids of the environments a project may have.
EnvironmentIds == {"env-1", "env-2", "env-3"}

\* The environments a project may have: at most MaxEnvironments, of
\* different ids, each created at some time.
EnvironmentSets ==
    {S \in SUBSET (EnvironmentIds \X (1..MaxCreatedAt)) :
        /\ Cardinality(S) <= MaxEnvironments
        /\ \A x, y \in S : x[1] = y[1] => x = y}

\* The projects the remote may hold under the id of the configuration.
Projects ==
    {[Id |-> "p1", Name |-> "shop", Description |-> "", IsPublic |-> FALSE,
      PrDeploys |-> FALSE, Workspace |-> w,
      Environments |-> {[Id |-> x[1], CreatedAt |-> x[2]] : x \in S}] :
        w \in {Null, V([Id |-> "w1"])}, S \in EnvironmentSets}

\* The sequences of the elements of S in the order of their creation.
SortedByCreatedAt(S) ==
    {q \in [1..Cardinality(S) -> S] :
        /\ \A i, j \in DOMAIN q : i # j => q[i] # q[j]
        /\ \A i, j \in DOMAIN q : i < j => q[i].CreatedAt <= q[j].CreatedAt}

\* getProject: the responses the query may return for a project, its
\* environments as edges sorted by createdAt.
getProject(p) ==
    {[Name |-> p.Name, Description |-> p.Description, IsPublic |-> p.IsPublic,
      PrDeploys |-> p.PrDeploys, Workspace |-> p.Workspace,
      Environments |-> [Edges |-> [i \in DOMAIN q |-> [Node |-> q[i]]]]] :
        q \in SortedByCreatedAt(p.Environments)}

\* The configuration of the data source.
ProjectDataSourceConfig ==
    [id |-> V("p1"), name |-> Null, description |-> Null, is_public |-> Null,
     has_pr_deploys |-> Null, workspace_id |-> Null,
     default_environment_id |-> Null]

\* A faulty variant of ProjectDataSourceReadResult: the environment of the
\* last edge is taken as the default one.
ProjectDataSourceReadResultLastEdge(data, response) ==
    [data EXCEPT
        !.name = V(response.Name),
        !.description = V(response.Description),
        !.is_public = V(response.IsPublic),
        !.has_pr_deploys = V(response.PrDeploys),
        !.workspace_id = IF ~IsNull(response.Workspace)
                         THEN V(response.Workspace.v.Id) ELSE Null,
        !.default_environment_id =
            IF Len(response.Environments.Edges) > 0
            THEN V(response.Environments.Edges[Len(response.Environments.Edges)].Node.Id)
            ELSE Null]

\* Read: the state set from the project of the response.
ProjectDataSourceReadResult(data, response) ==
    [data EXCEPT
        !.name = V(response.Name),
        !.description = V(response.Description),
        !.is_public = V(response.IsPublic),
        !.has_pr_deploys = V(response.PrDeploys),
        !.workspace_id = IF ~IsNull(response.Workspace)
                         THEN V(response.Workspace.v.Id) ELSE Null,
        !.default_environment_id =
            IF Len(response.Environments.Edges) > 0
            THEN V(response.Environments.Edges[1].Node.Id)
            ELSE Null]

\* Read of the data source: getProject, then the state set from its
\* response, or an error diagnostic and no state.
ProjectDataSourceRead ==
    /\ remoteProject # Null
    /\ dataSource.data = NoState
    /\ dataSource.diag = ""
    /\ \E out \in {"ok", "error"} :
        IF out = "ok"
        THEN \E response \in getProject(remoteProject) :
                dataSource' = [data |-> ProjectDataSourceReadResult(
                                            ProjectDataSourceConfig, response),
                               diag |-> ""]
        ELSE dataSource' = [data |-> NoState, diag |-> "Client Error"]
    /\ UNCHANGED <<resources, remoteProject, sums, script, registry>>

\* Terraform reads the data source again in its next run.
ProjectDataSourceForget ==
    /\ remoteProject # Null
    /\ dataSource # [data |-> NoState, diag |-> ""]
    /\ dataSource' = [data |-> NoState, diag |-> ""]
    /\ UNCHANGED <<resources, remoteProject, sums, script, registry>>

ProjectInit ==
    /\ ResourcesIdle
    /\ remoteProject \in Projects
    /\ dataSource = [data |-> NoState, diag |-> ""]
    /\ sums = <<>>
    /\ script = [at |-> "idle", line |-> 0, out |-> <<>>, status |-> Null]
    /\ registry = [version |-> FALSE, shasums |-> FALSE, sig |-> FALSE,
                   platforms |-> {}, binaries |-> {}]

ProjectNext ==
    \/ ProjectDataSourceRead
    \/ ProjectDataSourceForget

ProjectSpec == ProjectInit /\ [][ProjectNext]_vars

(***************************************************************************)
(* scripts/publish-to-hcp.sh                                               *)
(***************************************************************************)
\* The files a line of SHA256SUMS may name.
Filenames ==
    {"terraform-provider-railway_0.8.0_linux_amd64.zip",
     "terraform-provider-railway_0.8.0_darwin_arm64.zip",
     "terraform-provider-railway_0.8.0_manifest.json"}

\* The SHA256SUMS files of a release: at most MaxLines lines, each of
\* another file.
ShaSums ==
    UNION {{q \in [1..n -> Filenames] :
                \A i, j \in 1..n : i # j => q[i] # q[j]} : n \in 0..MaxLines}

\* [[ "$FILENAME" =~ \.zip$ ]]
IsZip(filename) ==
    /\ Len(filename) >= 4
    /\ SubSeq(filename, Len(filename) - 3, Len(filename)) = ".zip"

\* echo
Echo(message) == Append(script.out, message)

\* exit, or the end of the script under set -e when a command fails.
Exit(status, output) ==
    script' = [script EXCEPT !.at = "exited", !.status = V(status), !.out = output]

\* The script goes on at the next position.
Goto(at, output) == script' = [script EXCEPT !.at = at, !.out = output]

\* The loop goes on with the next line of SHA256SUMS.
Continue(output) ==
    script' = [script EXCEPT !.at = "loop", !.line = @ + 1, !.out = output]

\* Lines 18-26: the required environment variables.
Validate ==
    /\ script.at = "validate"
    /\ \E set \in BOOLEAN :
        IF set THEN Goto("download", Echo("Publishing"))
        ELSE Exit(1, Echo("Error: environment variable is required"))
    /\ UNCHANGED <<resources, remoteProject, dataSource, sums, registry>>

\* Lines 32-46: gh release download, which may fail (set -e) or leave no
\* SHA256SUMS file.
Download ==
    /\ script.at = "download"
    /\ \E got \in {"ok", "fail", "nosums"} :
        CASE got = "ok" -> Goto("version", Echo("Downloading release assets"))
          [] got = "fail" -> Exit(1, Echo("Downloading release assets"))
          [] got = "nosums" ->
                Exit(1, Echo("Downloading release assets")
                            \o <<"Error: SHA256SUMS file not found">>)
    /\ UNCHANGED <<resources, remoteProject, dataSource, sums, registry>>

\* Lines 48-80: the provider version is created; the response holds errors,
\* or the upload links, or neither; or curl itself fails (set -e).
CreateVersion ==
    /\ script.at = "version"
    /\ \E got \in {"created", "errors", "nolinks", "fail"} :
        CASE got = "created" ->
                /\ registry' = [registry EXCEPT !.version = TRUE]
                /\ Goto("shasums", Echo("Creating provider version"))
          [] got = "errors" ->
                /\ UNCHANGED registry
                /\ Exit(1, Echo("Creating provider version")
                               \o <<"Error creating version">>)
          [] got = "nolinks" ->
                /\ registry' = [registry EXCEPT !.version = TRUE]
                /\ Exit(1, Echo("Creating provider version")
                               \o <<"Error: Failed to get upload URLs from response">>)
          [] got = "fail" ->
                /\ UNCHANGED registry
                /\ Exit(7, Echo("Creating provider version"))
    /\ UNCHANGED <<resources, remoteProject, dataSource, sums>>

\* Lines 82-86: curl -s -X PUT of SHA256SUMS. Without --fail curl ends with
\* status 0 also when the server rejects the upload.
UploadShasums ==
    /\ script.at = "shasums"
    /\ \E got \in {"ok", "rejected", "fail"} :
        CASE got = "ok" ->
                /\ registry' = [registry EXCEPT !.shasums = TRUE]
                /\ Goto("sig", Echo("Uploading SHA256SUMS"))
          [] got = "rejected" ->
                /\ UNCHANGED registry
                /\ Goto("sig", Echo("Uploading SHA256SUMS"))
          [] got = "fail" ->
                /\ UNCHANGED registry
                /\ Exit(7, Echo("Uploading SHA256SUMS"))
    /\ UNCHANGED <<resources, remoteProject, dataSource, sums>>

\* Lines 88-92: curl -s -X PUT of SHA256SUMS.sig.
UploadShasumsSig ==
    /\ script.at = "sig"
    /\ \E got \in {"ok", "rejected", "fail"} :
        CASE got = "ok" ->
                /\ registry' = [registry EXCEPT !.sig = TRUE]
                /\ Continue(Echo("Uploading SHA256SUMS.sig"))
          [] got = "rejected" ->
                /\ UNCHANGED registry
                /\ Continue(Echo("Uploading SHA256SUMS.sig"))
          [] got = "fail" ->
                /\ UNCHANGED registry
                /\ Exit(7, Echo("Uploading SHA256SUMS.sig"))
    /\ UNCHANGED <<resources, remoteProject, dataSource, sums>>

\* Lines 98-105: a line that names no .zip file is skipped.
SkipLine ==
    /\ script.at = "loop"
    /\ script.line <= Len(sums)
    /\ ~IsZip(sums[script.line])
    /\ Continue(script.out)
    /\ UNCHANGED <<resources, remoteProject, dataSource, sums, registry>>

\* Lines 107-142: the platform of a .zip line is created; on errors in the
\* response, or without upload link, the loop continues with the next line.
CreatePlatform ==
    /\ script.at = "loop"
    /\ script.line <= Len(sums)
    /\ IsZip(sums[script.line])
    /\ \E got \in {"created", "errors", "nolinks", "fail"} :
        LET filename == sums[script.line] IN
        CASE got = "created" ->
                /\ registry' = [registry EXCEPT !.platforms = @ \cup {filename}]
                /\ Goto("binary", Echo("Creating platform"))
          [] got = "errors" ->
                /\ UNCHANGED registry
                /\ Continue(Echo("Creating platform") \o <<"Error creating platform">>)
          [] got = "nolinks" ->
                /\ registry' = [registry EXCEPT !.platforms = @ \cup {filename}]
                /\ Continue(Echo("Creating platform")
                                \o <<"Error: Failed to get binary upload URL">>)
          [] got = "fail" ->
                /\ UNCHANGED registry
                /\ Exit(7, Echo("Creating platform"))
    /\ UNCHANGED <<resources, remoteProject, dataSource, sums>>

\* Lines 144-147: curl -s -X PUT of the binary.
UploadBinary ==
    /\ script.at = "binary"
    /\ \E got \in {"ok", "rejected", "fail"} :
        LET filename == sums[script.line] IN
        CASE got = "ok" ->
                /\ registry' = [registry EXCEPT !.binaries = @ \cup {filename}]
                /\ Continue(Echo("Uploading binary"))
          [] got = "rejected" ->
                /\ UNCHANGED registry
                /\ Continue(Echo("Uploading binary"))
          [] got = "fail" ->
                /\ UNCHANGED registry
                /\ Exit(7, Echo("Uploading binary"))
    /\ UNCHANGED <<resources, remoteProject, dataSource, sums>>

\* Lines 149-153: after the last line the script reports its success and
\* ends with status 0.
Succeed ==
    /\ script.at = "loop"
    /\ script.line > Len(sums)
    /\ Exit(0, Echo("Successfully published"))
    /\ UNCHANGED <<resources, remoteProject, dataSource, sums, registry>>

PublishInit ==
    /\ ResourcesIdle
    /\ remoteProject = Null
    /\ dataSource = [data |-> NoState, diag |-> ""]
    /\ sums \in ShaSums
    /\ script = [at |-> "validate", line |-> 0, out |-> <<>>, status |-> Null]
    /\ registry = [version |-> FALSE, shasums |-> FALSE, sig |-> FALSE,
                   platforms |-> {}, binaries |-> {}]

PublishNext ==
    \/ Validate
    \/ Download
    \/ CreateVersion
    \/ UploadShasums
    \/ UploadShasumsSig
    \/ SkipLine
    \/ CreatePlatform
    \/ UploadBinary
    \/ Succeed

PublishSpec == PublishInit /\ [][PublishNext]_vars

(***************************************************************************)
(* Properties of the provider.                                             *)
(***************************************************************************)
\* The cycle of r with lifecycle operation o has ended.
Finished(r, o) == op[r] = o /\ pc[r] = "idle"

\* The natural key by which the remote resolves Create-or-Get.
NaturalKey(k, data) ==
    IF k = "pn"
    THEN <<ValueString(data.name), ValueString(data.project_id),
           ValueString(data.environment_id)>>
    ELSE <<ValueString(data.private_network_id), ValueString(data.service_id),
           ValueString(data.environment_id), ValueString(data.service_name)>>

\* Both instances were created, by the only two cycles of the run.
BothCreated ==
    /\ kind \in {"pn", "ep"}
    /\ ops = 2
    /\ \A r \in Res : Finished(r, "create") /\ res[r] = "created"

\* C1: two Create operations of a private network or of an endpoint with the
\* same natural key, in whatever order their remote calls interleave, leave
\* the same identity in both canonical states: the identity of the one remote
\* resource with that natural key.
C1_SameIdentity ==
    (BothCreated /\ NaturalKey(kind, plan[1]) = NaturalKey(kind, plan[2]))
        => /\ st[1].id = st[2].id
           /\ <<ValueString(st[1].id), NaturalKey(kind, plan[1])>> \in RemoteKeys

C1_Witness ==
    /\ BothCreated
    /\ NaturalKey(kind, plan[1]) = NaturalKey(kind, plan[2])
    /\ st[1].id = st[2].id
    /\ Cardinality(RemoteKeys) = 1

\* The attributes that cannot change in place.
Immutable(k) ==
    CASE k = "pn" -> {"name", "project_id", "environment_id"}
      [] k = "ep" -> {"private_network_id", "service_id", "environment_id",
                      "service_name"}
      [] k \in {"si", "sl"} -> {"service_id", "environment_id"}

\* The cycle of r applies a plan that changes an immutable attribute of the
\* prior state.
ImmutableChanged(r) ==
    /\ op[r] \in {"replace", "update"}
    /\ \E a \in Immutable(kind) : plan[r][a] # prior[r][a]

\* C2: a plan that changes an immutable attribute of any of the four kinds is
\* carried out as a replacement (Delete, then Create), never by Update, and
\* ends, unless a call fails, with changeKind replaced and the new values.
C2_ImmutableReplaces ==
    \A r \in Res :
        ImmutableChanged(r) =>
            /\ op[r] = "replace"
            /\ pc[r] \in {"Delete", "Create", "CreateRedeploy", "CreateRead", "idle"}
            /\ \A i \in 1..Len(calls[r]) :
                    calls[r][i].fn \in
                        IF pc[r] = "Delete" THEN {}
                        ELSE IF kind = "pn"
                        THEN {"deletePrivateNetworksForEnvironment",
                              "createOrGetPrivateNetwork"}
                        ELSE IF kind = "ep"
                        THEN {"deletePrivateNetworkEndpoint",
                              "createOrGetPrivateNetworkEndpoint"}
                        ELSE {"updateServiceInstanceWithEnv",
                              "redeployServiceInstanceWithEnv",
                              "getServiceInstanceForResource",
                              "updateServiceInstanceLimits"}
            /\ (pc[r] = "idle" /\ res[r] # "faulted") =>
                    /\ res[r] = "replaced"
                    /\ st[r] # NoState
                    /\ \A a \in Immutable(kind) : st[r][a] = plan[r][a]

C2_Witness ==
    /\ kind = "ep"
    /\ Finished(1, "replace")
    /\ res[1] = "replaced"
    /\ plan[1].service_name # prior[1].service_name
    /\ st[1].service_name = plan[1].service_name

\* The Read of r got a response that does not hold the resource of the
\* state: no network with the state's id, a null endpoint.
ReadAbsent(r) ==
    /\ kind \in {"pn", "ep"}
    /\ Finished(r, "read")
    /\ Len(calls[r]) = 1
    /\ calls[r][1].err = ""
    /\ IF kind = "pn"
       THEN \A n \in calls[r][1].response.v : n.PublicId # ValueString(prior[r].id)
       ELSE IsNull(calls[r][1].response)

\* C3: when the remote read of a private network or endpoint reports the
\* resource absent, Read removes the resource from the state (changeKind
\* removed) and reports no error.
C3_AbsentRemoved ==
    \A r \in Res :
        ReadAbsent(r) => st[r] = NoState /\ res[r] = "removed" /\ diag[r] = ""

C3_Witness ==
    \E r \in Res : ReadAbsent(r) /\ st[r] = NoState /\ prior[r] # NoState

\* The Read of a service instance was told that the instance does not exist.
ReadNotFound(r) ==
    /\ kind = "si"
    /\ Finished(r, "read")
    /\ Len(calls[r]) = 1
    /\ calls[r][1].err = "NotFound"

\* C4: when the remote instance of a service instance no longer exists, Read
\* removes the resource from the state (changeKind removed) and reports no
\* error.
C4_VanishedRemoved ==
    \A r \in Res :
        ReadNotFound(r) => st[r] = NoState /\ res[r] = "removed" /\ diag[r] = ""

\* C5: Read of service limits issues no remote call and sets the state it was
\* given, whatever the limits of the remote instance are: no drift, no error.
C5_LimitsReadLocal ==
    \A r \in Res :
        (kind = "sl" /\ Finished(r, "read")) =>
            /\ calls[r] = <<>>
            /\ st[r] = prior[r]
            /\ res[r] = "unchanged"
            /\ diag[r] = ""

C5_Witness ==
    /\ kind = "sl"
    /\ Finished(1, "read")
    /\ st[1] = prior[1]
    /\ \E i \in instances :
        /\ i.ServiceId = ValueString(st[1].service_id)
        /\ i.EnvironmentId = ValueString(st[1].environment_id)
        /\ i.MemoryGB # st[1].memory_gb
        /\ i.MemoryGB = V(8)

\* C6: creating a private network without prior state issues exactly one
\* remote call, createOrGetPrivateNetwork with the planned natural key, and
\* when it succeeds the state holds the id and the dns_name of its response,
\* with changeKind created.
C6_CreateOnce ==
    \A r \in Res :
        (kind = "pn" /\ Finished(r, "create")) =>
            /\ Len(calls[r]) = 1
            /\ calls[r][1].fn = "createOrGetPrivateNetwork"
            /\ <<calls[r][1].input.Name, calls[r][1].input.ProjectId,
                 calls[r][1].input.EnvironmentId>> = NaturalKey("pn", plan[r])
            /\ calls[r][1].err = "" =>
                    /\ res[r] = "created"
                    /\ st[r] # NoState
                    /\ st[r].id = V(calls[r][1].response.v.PublicId)
                    /\ st[r].dns_name = V(calls[r][1].response.v.DnsName)

C6_Witness ==
    /\ kind = "pn"
    /\ ops = 1
    /\ Finished(1, "create")
    /\ res[1] = "created"
    /\ st[1].dns_name = V(DnsNameOf("internal"))
    /\ Len(calls[1]) = 1

\* The remote calls that only query.
QueryFns ==
    {"getPrivateNetworks", "getPrivateNetworkEndpoint",
     "getServiceInstanceForResource"}

\* The step in which the Read of r runs.
ReadStep(r) == op[r] = "read" /\ pc[r] = "Read" /\ pc'[r] = "idle"

\* Read issues at most one remote call, a query, and leaves the remote
\* resources as they are.
ReadFrame ==
    \A r \in Res :
        ReadStep(r) =>
            /\ UNCHANGED remoteVars
            /\ Len(calls'[r]) <= 1
            /\ \A i \in 1..Len(calls'[r]) : calls'[r][i].fn \in QueryFns

\* r was created and then read, by the only two cycles of the run, and the
\* read returned without error.
ReadAfterCreate(r) ==
    /\ ops = 2
    /\ Finished(r, "read")
    /\ diag[r] = ""
    /\ \A q \in Res \ {r} : op[q] = "none"

\* Reading a resource right after its creation finds it unchanged, and the
\* configuration it was created from then plans as a no-op.
SecondReconcileUnchanged ==
    \A r \in Res :
        ReadAfterCreate(r) =>
            /\ res[r] = "unchanged"
            /\ st[r] = prior[r]
            /\ \A cfg \in Configs(kind, r) :
                    PlanFor(kind, cfg, NoState) = plan[r]
                        => PlanKind(kind, cfg, st[r]) = "noop"

\* A plan without difference runs no handler: no call, the state as it was.
NoopIssuesNothing ==
    \A r \in Res :
        Finished(r, "noop") =>
            calls[r] = <<>> /\ st[r] = prior[r] /\ res[r] = "unchanged"

\* C7: reconciling an unchanged configuration a second time issues no
\* mutating remote call: Read of every kind issues at most a query and leaves
\* the remote resources unchanged, the read following a creation reports
\* changeKind unchanged, and the same configuration then plans as a no-op,
\* which issues no call.
C7_SecondReconcile ==
    /\ [](SecondReconcileUnchanged /\ NoopIssuesNothing)
    /\ [][ReadFrame]_vars

C7_Witness ==
    /\ kind = "si"
    /\ ReadAfterCreate(1)
    /\ res[1] = "unchanged"
    /\ Len(calls[1]) = 1
    /\ calls[1][1].fn = "getServiceInstanceForResource"

\* The step in which the Create of a replacement of r succeeds.
ReplaceCompletes(r) ==
    /\ kind \in {"pn", "ep"}
    /\ op[r] = "replace"
    /\ pc[r] = "Create"
    /\ pc'[r] = "idle"
    /\ res'[r] = "replaced"

\* C8: in the replacement of a private network or endpoint, the delete call
\* for the old identity has returned, and the old identity is gone from the
\* remote, before the Create-or-Get call is issued; when Create completes,
\* the state holds an identity other than the old one, and the resource with
\* that identity exists remotely.
C8_ReplaceOrder ==
    [][\A r \in Res :
        ReplaceCompletes(r) =>
            /\ Len(calls[r]) = 1
            /\ calls[r][1].fn = IF kind = "pn"
                                THEN "deletePrivateNetworksForEnvironment"
                                ELSE "deletePrivateNetworkEndpoint"
            /\ calls[r][1].err = ""
            /\ ValueString(prior[r].id) \notin RemoteIds
            /\ Len(calls'[r]) = 2
            /\ calls'[r][2].fn = IF kind = "pn"
                                 THEN "createOrGetPrivateNetwork"
                                 ELSE "createOrGetPrivateNetworkEndpoint"
            /\ st'[r].id # prior[r].id
            /\ ValueString(st'[r].id) \in RemoteIds']_vars

C8_Witness ==
    /\ kind = "pn"
    /\ Finished(1, "replace")
    /\ res[1] = "replaced"
    /\ Len(calls[1]) = 2
    /\ st[1].id # prior[1].id
    /\ ValueString(st[1].id) \in RemoteIds
    /\ ValueString(prior[1].id) \notin RemoteIds

\* The step in which the Delete of a service instance or of service limits
\* runs.
DeleteStep(r) ==
    /\ kind \in {"si", "sl"}
    /\ pc[r] = "Delete"
    /\ pc'[r] # "Delete"

\* C9: Delete of a service instance or of service limits issues no remote
\* call and leaves the remote instances, their settings and limits, as they
\* are, while the resource leaves the state.
C9_DeleteLocalOnly ==
    [][\A r \in Res :
        DeleteStep(r) =>
            /\ UNCHANGED remoteVars
            /\ calls[r] = <<>>
            /\ calls'[r] = <<>>
            /\ st'[r] = NoState]_vars

C9_Witness ==
    /\ kind = "sl"
    /\ Finished(1, "delete")
    /\ st[1] = NoState
    /\ calls[1] = <<>>
    /\ \E i \in instances :
        /\ i.ServiceId = ValueString(prior[1].service_id)
        /\ i.EnvironmentId = ValueString(prior[1].environment_id)
        /\ i.MemoryGB = prior[1].memory_gb
        /\ ~IsNull(i.MemoryGB)

\* The attributes that the update input of a kind can carry.
PayloadAttrs(k) ==
    IF k = "si"
    THEN {"source_image", "source_repo", "registry_credentials_username",
          "registry_credentials_password", "builder", "build_command",
          "start_command", "pre_deploy_command", "healthcheck_path",
          "healthcheck_timeout", "restart_policy_type",
          "restart_policy_max_retries", "sleep_application"}
    ELSE {"memory_gb", "vcpus"}

\* The update input carries attribute a.
InPayload(input, a) ==
    CASE a = "source_image" -> ~IsNull(input.Source) /\ ~IsNull(input.Source.v.Image)
      [] a = "source_repo" -> ~IsNull(input.Source) /\ ~IsNull(input.Source.v.Repo)
      [] a \in {"registry_credentials_username", "registry_credentials_password"} ->
            ~IsNull(input.RegistryCredentials)
      [] a = "builder" -> ~IsNull(input.Builder)
      [] a = "build_command" -> ~IsNull(input.BuildCommand)
      [] a = "start_command" -> ~IsNull(input.StartCommand)
      [] a = "pre_deploy_command" -> ~IsNull(input.PreDeployCommand)
      [] a = "healthcheck_path" -> ~IsNull(input.HealthcheckPath)
      [] a = "healthcheck_timeout" -> ~IsNull(input.HealthcheckTimeout)
      [] a = "restart_policy_type" -> ~IsNull(input.RestartPolicyType)
      [] a = "restart_policy_max_retries" -> ~IsNull(input.RestartPolicyMaxRetries)
      [] a = "sleep_application" -> ~IsNull(input.SleepApplication)
      [] a = "memory_gb" -> ~IsNull(input.MemoryGB)
      [] a = "vcpus" -> ~IsNull(input.VCPUs)

\* The Update of r has issued its update call.
UpdateIssued(r) ==
    /\ kind \in {"si", "sl"}
    /\ op[r] = "update"
    /\ calls[r] # <<>>

\* C10: the input of the update call of a service instance or of service
\* limits carries an attribute if and only if its planned value differs
\* from the prior state.
C10_DeltaOnly ==
    \A r \in Res :
        UpdateIssued(r) =>
            \A a \in PayloadAttrs(kind) :
                InPayload(calls[r][1].input, a) <=> plan[r][a] # prior[r][a]

\* The desired configuration has no value for a: its planned value is null,
\* or unknown (a computed attribute that is not configured).
Absent(data, a) == IsNull(data[a]) \/ IsUnknown(data[a])

\* C11: an attribute that the desired configuration does not have is
\* omitted from the input of every mutation: the tags from the createOrGet
\* input of a private network or endpoint, every other attribute from the
\* update input of a service instance or of service limits.
C11_AbsentOmitted ==
    \A r \in Res :
        \A i \in 1..Len(calls[r]) :
            LET c == calls[r][i] IN
            /\ c.fn \in {"createOrGetPrivateNetwork",
                         "createOrGetPrivateNetworkEndpoint"}
                    => (Absent(plan[r], "tags") => IsNull(c.input.Tags))
            /\ c.fn \in {"updateServiceInstanceWithEnv",
                         "updateServiceInstanceLimits"}
                    => \A a \in PayloadAttrs(kind) :
                            Absent(plan[r], a) => ~InPayload(c.input, a)

\* The step in which a remote call of a Create, Update or Delete of r
\* returns an error.
FailingStep(r) ==
    /\ op[r] \in {"create", "replace", "update", "delete"}
    /\ Len(calls'[r]) = Len(calls[r]) + 1
    /\ calls'[r][Len(calls'[r])].err # ""

\* A remote call of the Create, Update or Delete cycle of r returned an error.
CallFailed(r) ==
    /\ op[r] \in {"create", "update", "delete"}
    /\ \E i \in 1..Len(calls[r]) : calls[r][i].err # ""

\* C12: when a remote call of Create, Update or Delete returns an error, the
\* handler ends Faulted without writing or removing state in that step, and
\* so a Create, Update or Delete cycle in which a call failed has ended
\* Faulted with the state it began with.
C12_FaultKeepsState ==
    /\ [](\A r \in Res :
            CallFailed(r) =>
                /\ Finished(r, op[r])
                /\ res[r] = "faulted"
                /\ st[r] = prior[r])
    /\ [][\A r \in Res :
            FailingStep(r) =>
                /\ st'[r] = st[r]
                /\ pc'[r] = "idle"
                /\ res'[r] = "faulted"]_vars

C12_Witness ==
    /\ kind = "si"
    /\ Finished(1, "update")
    /\ res[1] = "faulted"
    /\ Len(calls[1]) = 3
    /\ calls[1][3].err # ""
    /\ st[1] = prior[1]
    /\ st[1] # NoState

\* C13: in every lifecycle operation, a remote call that returned an error
\* is the last call of its cycle, and the cycle has ended Faulted with an
\* error diagnostic: no error is swallowed, no call follows a failed one.
C13_ErrorsSurface ==
    \A r \in Res :
        \A i \in 1..Len(calls[r]) :
            calls[r][i].err # "" =>
                /\ i = Len(calls[r])
                /\ pc[r] = "idle"
                /\ res[r] = "faulted"
                /\ diag[r] # ""

C13_Witness ==
    /\ kind = "si"
    /\ op[1] = "update"
    /\ Len(calls[1]) = 2
    /\ calls[1][1].err = ""
    /\ calls[1][2].fn = "redeployServiceInstanceWithEnv"
    /\ calls[1][2].err = "Transient"
    /\ pc[1] = "idle"
    /\ diag[1] = "Client Error"

\* The remote resources and the canonical state of r after one cycle, every
\* call of which succeeds, that applies plan[r] to the remote resources
\* start: a Create, or an Update of a service instance or of service limits.
Uninterrupted(r, start) ==
    LET data == plan[r]
        environmentId == ValueString(data.environment_id)
        serviceId == ValueString(data.service_id)
        written == IF op[r] = "create"
                   THEN [data EXCEPT !.id = V(CompositeId(data))] ELSE data
        same == [st |-> NoState, networks |-> start.networks,
                 endpoints |-> start.endpoints, instances |-> start.instances]
    IN  CASE kind = "pn" ->
                LET out == createOrGetPrivateNetwork(
                               start.networks, start.nextId, PrivateNetworkInput(data))
                IN  [same EXCEPT
                        !.networks = out.networks,
                        !.st = PrivateNetworkCreated(data, out.PrivateNetworkCreateOrGet)]
          [] kind = "ep" ->
                LET out == createOrGetPrivateNetworkEndpoint(
                               start.endpoints, start.nextId,
                               PrivateNetworkEndpointInput(data))
                IN  [same EXCEPT
                        !.endpoints = out.endpoints,
                        !.st = PrivateNetworkEndpointCreated(
                                   data, out.PrivateNetworkEndpointCreateOrGet)]
          [] kind = "si" ->
                LET updated == updateServiceInstanceWithEnv(
                                   start.instances, environmentId, serviceId,
                                   buildUpdateInput(data))
                    deployed == IF ValueBool(data.redeploy)
                                THEN redeployServiceInstanceWithEnv(
                                         updated, environmentId, serviceId)
                                ELSE updated
                    instance == CHOOSE i \in InstanceOf(deployed, environmentId,
                                                        serviceId) : TRUE
                IN  [same EXCEPT
                        !.instances = deployed,
                        !.st = readServiceInstance(written, instance)]
          [] kind = "sl" ->
                [same EXCEPT
                    !.instances = updateServiceInstanceLimits(
                                      start.instances, buildLimitsInput(data)),
                    !.st = written]

\* The Create or Update of r that has just ended without error applied again
\* the configuration of the cycle before it, a Create or Update as well,
\* which had ended with an error; no other instance has been reconciled,
\* and nothing else has happened since that configuration was first applied.
Retried(r) ==
    /\ retry[r]
    /\ op[r] \in {"create", "update"}
    /\ op[r] = before[r].op
    /\ pc[r] = "idle"
    /\ res[r] # "faulted"
    /\ ops = before[r].ops + 2
    /\ \A q \in Res \ {r} : op[q] = "none"

\* C14: a Create or an Update that is retried with the same configuration
\* after a cycle that ended with an error, at whichever call, ends as one
\* uninterrupted cycle ends: with the same canonical state (so the same
\* identity) and the same remote networks, endpoints and service instances.
C14_RetryAsUninterrupted ==
    \A r \in Res :
        Retried(r) =>
            LET once == Uninterrupted(r, before[r].remote)
            IN  /\ st[r] = once.st
                /\ networks = once.networks
                /\ endpoints = once.endpoints
                /\ instances = once.instances

\* The only cycles of the run are a Create by q and, after it, the import by
\* r of the resource q created, and no call returned an error.
ImportedFrom(r, q) ==
    /\ q # r
    /\ ops = 2
    /\ faults = 0
    /\ Finished(q, "create")
    /\ res[q] = "created"
    /\ ValueString(st[q].id) \in RemoteIds
    /\ Finished(r, "import")

\* C15: the import of a private network or endpoint that exists remotely,
\* by its id, ends with a canonical state that holds that resource: its id
\* and the attributes of its natural key, as the remote holds them; it ends
\* neither with the resource removed from the state nor with an error.
C15_ImportAdopts ==
    kind \in {"pn", "ep"} =>
        \A r, q \in Res :
            ImportedFrom(r, q) =>
                /\ res[r] \notin {"removed", "faulted"}
                /\ st[r] # NoState
                /\ st[r].id = st[q].id
                /\ NaturalKey(kind, st[r]) = NaturalKey(kind, st[q])

\* C16: the import of a service instance or of service limits by a
\* composite id service_id:environment_id, when no call fails for a reason
\* of the remote's own, ends with a canonical state whose service_id and
\* environment_id are the two components of the id.
C16_ImportDecodes ==
    kind \in {"si", "sl"} =>
        \A r \in Res :
            Finished(r, "import") /\ faults = 0 =>
                /\ st[r] # NoState
                /\ ValueString(st[r].id) \in ImportIds
                /\ CompositeId(st[r]) = ValueString(st[r].id)

\* The Create-or-Get calls of the two resources.
CreateOrGetFns == {"createOrGetPrivateNetwork", "createOrGetPrivateNetworkEndpoint"}

\* C17: a Create whose Create-or-Get call returned a resource whose tags are
\* not the desired ones, which is the existing resource of the natural key,
\* ends with an error diagnostic and not as a success.
C17_ConflictReported ==
    kind \in {"pn", "ep"} =>
        \A r \in Res : \A i \in 1..Len(calls[r]) :
            LET c == calls[r][i] IN
            /\ c.fn \in CreateOrGetFns
            /\ c.err = ""
            /\ c.response.v.Tags # ElementsAs(c.input.Tags)
            /\ pc[r] = "idle"
            => res[r] = "faulted" /\ diag[r] # ""

\* The only cycles of the run are the Create of r, which succeeded, and the
\* Create and the Delete of q, a private network of another name.
AloneBut(r, q) ==
    /\ q # r
    /\ ops = 3
    /\ Finished(r, "create")
    /\ res[r] = "created"
    /\ Finished(q, "delete")
    /\ prior[q] # NoState
    /\ prior[q].name # st[r].name

\* C18: whatever the interleaving of the Create of a private network with
\* the Create and the Delete of a private network of another name, the
\* network that r created exists remotely when both have ended, as it does
\* when the Create of r runs alone.
C18_NoInterference ==
    kind = "pn" =>
        \A r, q \in Res :
            AloneBut(r, q) =>
                \E n \in networks : /\ n.PublicId = ValueString(st[r].id)
                                    /\ n.Name = ValueString(st[r].name)

\* The positions of the redeploy calls among the calls of the cycle of r.
Redeploys(r) ==
    {i \in 1..Len(calls[r]) : calls[r][i].fn = "redeployServiceInstanceWithEnv"}

\* The handler of r is beyond the point at which it redeploys.
PastRedeploy(r) ==
    /\ op[r] \in {"create", "replace", "update"}
    /\ Len(calls[r]) >= 1
    /\ calls[r][1].fn = "updateServiceInstanceWithEnv"
    /\ calls[r][1].err = ""
    /\ pc[r] \in {"CreateRead", "UpdateRead", "idle"}

\* C19: in a Create or Update of a service instance the redeploy call is
\* issued at most once, as the second call, after an update call that
\* returned without error, and only when redeploy is true; and once the
\* update call has returned without error and redeploy is true, the handler
\* does not go on to read back without having issued it.
C19_RedeployIffRequested ==
    kind = "si" =>
        \A r \in Res :
            /\ \A i \in Redeploys(r) :
                    /\ i = 2
                    /\ calls[r][1].fn = "updateServiceInstanceWithEnv"
                    /\ calls[r][1].err = ""
                    /\ ValueBool(plan[r].redeploy)
            /\ PastRedeploy(r) =>
                    (ValueBool(plan[r].redeploy) <=> Redeploys(r) = {2})

\* An Update with redeploy = true has updated, redeployed and read back.
C19_Witness ==
    /\ kind = "si"
    /\ Finished(1, "update")
    /\ res[1] = "updated"
    /\ ValueBool(plan[1].redeploy)
    /\ Len(calls[1]) = 3
    /\ Redeploys(1) = {2}

\* An Update with redeploy = false has updated and read back, no more.
C19_WitnessNoRedeploy ==
    /\ kind = "si"
    /\ Finished(1, "update")
    /\ res[1] = "updated"
    /\ ~ValueBool(plan[1].redeploy)
    /\ Len(calls[1]) = 2
    /\ Redeploys(1) = {}

\* The attributes of kind k that a configuration can set.
Configurable(k) == {a \in Attrs(k) : Schema(k)[a].mode # "computed"}

\* C20: no plan that changes a configurable attribute of a private network
\* or of an endpoint is carried out by Update.
C20_UpdateUnreachable ==
    kind \in {"pn", "ep"} =>
        \A r \in Res :
            ~ /\ op[r] = "update"
              /\ \E a \in Configurable(kind) : plan[r][a] # prior[r][a]

\* The step in which the Delete of the private network of r returns without
\* error.
NetworkDeleted(r) ==
    /\ kind = "pn"
    /\ pc[r] = "Delete"
    /\ Len(calls'[r]) = Len(calls[r]) + 1
    /\ calls'[r][Len(calls'[r])].err = ""

\* The managed private networks other than r's in the environment of r.
SameEnvironment(r) ==
    {q \in Res \ {r} : /\ st[q] # NoState
                       /\ st[q].environment_id = st[r].environment_id}

\* The step in which the Read of q finds, without error, no network with
\* the id of its state.
NetworkReadVanished(q) ==
    /\ kind = "pn"
    /\ ReadStep(q)
    /\ Len(calls'[q]) = 1
    /\ calls'[q][1].err = ""
    /\ ValueString(st[q].id) \notin RemoteIds

\* C21: a Delete of a private network that returns without error leaves no
\* private network of its environment remotely, that of every other managed
\* instance of the environment included; and the next Read of such an
\* instance removes it from the state, with changeKind removed and no error.
C21_DeleteCoarse ==
    [][\A r \in Res :
        /\ NetworkDeleted(r) =>
              /\ \A n \in networks' :
                    n.EnvironmentId # ValueString(st[r].environment_id)
              /\ \A q \in SameEnvironment(r) : ValueString(st[q].id) \notin RemoteIds'
        /\ NetworkReadVanished(r) =>
              /\ st'[r] = NoState
              /\ res'[r] = "removed"
              /\ diag'[r] = ""]_vars

\* Two networks of different names in one environment were created, the
\* first was destroyed, and the Read of the second then removed it.
C21_Witness ==
    /\ kind = "pn"
    /\ Finished(1, "delete")
    /\ res[1] = "removed"
    /\ Finished(2, "read")
    /\ res[2] = "removed"
    /\ diag[2] = ""
    /\ st[2] = NoState
    /\ prior[2] # NoState
    /\ prior[2].environment_id = prior[1].environment_id
    /\ prior[2].name # prior[1].name
    /\ faults = 0
    /\ networks = {}

\* The Read of r has ended without error and has found the resource.
ReadFound(r) ==
    /\ kind \in {"pn", "ep"}
    /\ Finished(r, "read")
    /\ Len(calls[r]) = 1
    /\ calls[r][1].err = ""
    /\ st[r] # NoState

\* The resources that the Read of r has observed as its own.
ObservedBy(r) ==
    IF kind = "pn"
    THEN {n \in calls[r][1].response.v : n.PublicId = ValueString(prior[r].id)}
    ELSE LET e == calls[r][1].response.v
         IN  {[e EXCEPT !.PublicId = ValueString(e.PublicId),
                        !.DnsName = ValueString(e.DnsName),
                        !.PrivateIps = NonNil(e.PrivateIps),
                        !.Tags = NonNil(e.Tags)]}

\* C22: after a Read without error that finds the private network or the
\* endpoint, the state holds the observed values of the attributes the remote
\* reports: the id, the DNS name, the attributes of the network's natural
\* key, the endpoint's addresses, and the tags, which are the remote tags
\* also when the remote resource has none.
C22_ReadEqualsRemote ==
    \A r \in Res :
        ReadFound(r) =>
            \A x \in ObservedBy(r) :
                /\ ValueString(st[r].id) = x.PublicId
                /\ ValueString(st[r].dns_name) = x.DnsName
                /\ kind = "pn" => NaturalKey(kind, st[r]) =
                                    <<x.Name, x.ProjectId, x.EnvironmentId>>
                /\ kind = "ep" => ElementsAs(st[r].private_ips) = x.PrivateIps
                /\ ElementsAs(st[r].tags) = x.Tags

\* The cycle of r has ended with a read-back of the service instance that
\* returned without error.
ReadBack(r) ==
    /\ kind = "si"
    /\ pc[r] = "idle"
    /\ st[r] # NoState
    /\ Len(calls[r]) >= 1
    /\ calls[r][Len(calls[r])].fn = "getServiceInstanceForResource"
    /\ calls[r][Len(calls[r])].err = ""

\* The instance that the read-back of r observed.
InstanceRead(r) == calls[r][Len(calls[r])].response.v

\* C23: after a read-back of a service instance without error, source_image
\* and source_repo of the state are the observed ones: the value the remote
\* reports, and null when it reports none or no source at all.
C23_SourceEqualsRemote ==
    \A r \in Res :
        ReadBack(r) =>
            LET source == InstanceRead(r).Source IN
            /\ st[r].source_image = IF IsNull(source) THEN Null ELSE source.v.Image
            /\ st[r].source_repo = IF IsNull(source) THEN Null ELSE source.v.Repo

\* The data that the read-back of r started from: the plan with the
\* composite id in Create and Update, the state in Read.
ReadBackData(r) ==
    IF op[r] = "read" THEN prior[r]
    ELSE [plan[r] EXCEPT !.id = V(CompositeId(plan[r]))]

\* The attributes of a service instance that the remote is never asked for.
WriteOnly ==
    {"registry_credentials_username", "registry_credentials_password", "redeploy"}

\* The values pre_deploy_command can have in the data of a read-back.
PreDeployCommands == {Null, Unknown, V(<<"migrate">>), V(<<>>)}

\* C24: the state written after a read-back of a service instance holds the
\* credentials, redeploy and pre_deploy_command of the data the read-back
\* started from, whatever the instance read; and on that instance
\* readServiceInstance returns every known or null pre_deploy_command as it
\* is and null for an unknown one.
C24_WriteOnlyCarried ==
    \A r \in Res :
        ReadBack(r) =>
            /\ \A a \in WriteOnly : st[r][a] = ReadBackData(r)[a]
            /\ st[r].pre_deploy_command = ReadBackData(r).pre_deploy_command
            /\ \A c \in PreDeployCommands :
                  LET data == [ReadBackData(r) EXCEPT !.pre_deploy_command = c]
                      new == readServiceInstance(data, InstanceRead(r))
                  IN  /\ new.pre_deploy_command = IF IsUnknown(c) THEN Null ELSE c
                      /\ \A a \in WriteOnly : new[a] = data[a]

\* A read-back has written a state without pre_deploy_command while the
\* instance read has one.
C24_Witness ==
    /\ ReadBack(1)
    /\ IsNull(st[1].pre_deploy_command)
    /\ ~IsNull(InstanceRead(1).PreDeployCommand)

\* The functions of the calls of the cycle of r, in the order of issue.
Fns(r) == [i \in 1..Len(calls[r]) |-> calls[r][i].fn]

\* The calls of a Create or Update of a service instance, in their order.
Phases(data) ==
    IF ValueBool(data.redeploy)
    THEN <<"updateServiceInstanceWithEnv", "redeployServiceInstanceWithEnv",
           "getServiceInstanceForResource">>
    ELSE <<"updateServiceInstanceWithEnv", "getServiceInstanceForResource">>

\* The cycle of r is a Create or an Update of a service instance.
Applying(r) == kind = "si" /\ op[r] \in {"create", "replace", "update"}

\* A step of the Create or Update handler of r that writes its state.
StateWritten(r) ==
    /\ Applying(r)
    /\ pc[r] \notin {"idle", "Delete"}
    /\ st'[r] # st[r]

\* C25: in a Create or Update of a service instance the calls issued so far
\* are a prefix of update, redeploy (when enabled), read-back, each issued
\* after the one before it returned without error; the state is written in
\* the step in which the read-back, the last of them, returns without error,
\* and that step ends the cycle, so that no call follows it.
C25_PhasesInOrder ==
    /\ [](\A r \in Res :
            Applying(r) =>
                /\ Len(calls[r]) <= Len(Phases(plan[r]))
                /\ Fns(r) = SubSeq(Phases(plan[r]), 1, Len(calls[r]))
                /\ \A i \in 1..(Len(calls[r]) - 1) : calls[r][i].err = "")
    /\ [][\A r \in Res :
            StateWritten(r) =>
                /\ Fns(r)' = Phases(plan[r])
                /\ calls'[r][Len(calls'[r])].err = ""
                /\ Len(calls'[r]) = Len(calls[r]) + 1
                /\ pc'[r] = "idle"]_vars

\* A Create with redeploy enabled has issued its three calls and written
\* the state.
C25_Witness ==
    /\ kind = "si"
    /\ Finished(1, "create")
    /\ res[1] = "created"
    /\ st[1] # NoState
    /\ Len(calls[1]) = 3
    /\ Fns(1) = Phases(plan[1])
    /\ \A i \in 1..3 : calls[1][i].err = ""

\* The step in which the Update of a private network or endpoint runs.
UpdateStep(r) ==
    /\ kind \in {"pn", "ep"}
    /\ pc[r] = "Update"
    /\ pc'[r] # "Update"

\* C26: the Update of a private network or of an endpoint ends in one step
\* with the error "Update Not Supported"; it issues no remote call and
\* leaves the remote resources and the state as they are.
C26_UpdateNotSupported ==
    [][\A r \in Res :
        UpdateStep(r) =>
            /\ pc'[r] = "idle"
            /\ res'[r] = "faulted"
            /\ diag'[r] = "Update Not Supported"
            /\ calls[r] = <<>>
            /\ calls'[r] = <<>>
            /\ st'[r] = st[r]
            /\ UNCHANGED remoteVars]_vars

\* An Update of a private network, planned for changed tags, has ended.
C26_Witness ==
    /\ kind = "pn"
    /\ Finished(1, "update")
    /\ plan[1].tags # prior[1].tags
    /\ diag[1] = "Update Not Supported"
    /\ calls[1] = <<>>
    /\ st[1] = prior[1]
    /\ st[1] # NoState

\* The step in which the Delete of the endpoint of r returns without error.
EndpointDeleted(r) ==
    /\ kind = "ep"
    /\ pc[r] = "Delete"
    /\ Len(calls'[r]) = Len(calls[r]) + 1
    /\ calls'[r][Len(calls'[r])].err = ""

\* C27: a Delete of an endpoint that returns without error has passed the
\* id of the state to the delete call, and has removed remotely the endpoint
\* with that id and no other endpoint.
C27_DeleteScoped ==
    [][\A r \in Res :
        EndpointDeleted(r) =>
            /\ calls'[r][Len(calls'[r])].fn = "deletePrivateNetworkEndpoint"
            /\ calls'[r][Len(calls'[r])].input = ValueString(st[r].id)
            /\ endpoints' = {e \in endpoints : e.PublicId # ValueString(st[r].id)}
            /\ ValueString(st[r].id) \notin RemoteIds']_vars

\* Of the endpoints of two services' names on one network, created by the
\* two instances, the first was deleted and the second is left.
C27_Witness ==
    /\ kind = "ep"
    /\ Finished(1, "delete")
    /\ res[1] = "removed"
    /\ st[2] # NoState
    /\ prior[1].private_network_id = st[2].private_network_id
    /\ prior[1].id # st[2].id
    /\ RemoteIds = {ValueString(st[2].id)}

\* The state of r is one that Create, Read or Update wrote: there is one,
\* and it is not the state ImportState returns for its id.
Reconciled(r) ==
    /\ kind \in {"si", "sl"}
    /\ st[r] # NoState
    /\ st[r] # ImportedState(kind, ValueString(st[r].id))

\* C28: in every state of a service instance or of service limits that
\* Create, Read or Update wrote, id is a known value, service_id followed by
\* ':' followed by environment_id.
C28_IdIsComposite ==
    \A r \in Res :
        Reconciled(r) =>
            st[r].id = V(ValueString(st[r].service_id) \o ":"
                            \o ValueString(st[r].environment_id))

\* Service limits were created for one service and replaced by those of
\* another: the id follows.
C28_Witness ==
    /\ kind = "sl"
    /\ Finished(1, "replace")
    /\ res[1] = "replaced"
    /\ prior[1] # NoState
    /\ prior[1].id # st[1].id
    /\ st[1].id = V("s2:e1")

\* changeKind of a cycle that ended with the state written or removed.
DoneKinds == {"created", "replaced", "updated", "removed", "unchanged", "drifted"}

\* The cycle of r is in a terminal state: Done, or Faulted with its error.
Terminal(r) ==
    /\ pc[r] = "idle"
    /\ \/ res[r] \in DoneKinds /\ diag[r] = ""
       \/ res[r] = "faulted" /\ diag[r] # ""

\* C29: a cycle issues at most three remote calls, and every cycle that has
\* begun, whatever its operation and the kind of its resource, ends in a
\* terminal state, Done or Faulted, provided its remote calls return.
C29_Terminates ==
    /\ [](\A r \in Res : Len(calls[r]) <= 3)
    /\ \A r \in Res : (pc[r] # "idle") ~> Terminal(r)

\* A replacement of a service instance is under way, at its last call.
C29_Witness ==
    /\ kind = "si"
    /\ op[1] = "replace"
    /\ pc[1] = "CreateRead"
    /\ Len(calls[1]) = 2

\* The only cycles of the run are a Create of r and an Update of r, which
\* has ended with the state written.
UpdatedAfterCreate(r) ==
    /\ kind \in {"si", "sl"}
    /\ ops = 2
    /\ Finished(r, "update")
    /\ res[r] = "updated"

\* The image of the source the remote holds for instance i, null if none.
RemoteImage(i) == IF IsNull(i.Source) THEN Null ELSE i.Source.v.Image

\* C30: after an Update of a service instance or of service limits that
\* ended with the state written, the remote holds the desired value of
\* source_image, start_command and healthcheck_path, resp. of memory_gb and
\* vcpus, and holds none where the desired spec has none.
C30_UpdateLands ==
    \A r \in Res :
        UpdatedAfterCreate(r) =>
            \A i \in InstanceOf(instances, ValueString(plan[r].environment_id),
                                ValueString(plan[r].service_id)) :
                /\ kind = "sl" => /\ i.MemoryGB = plan[r].memory_gb
                                  /\ i.VCPUs = plan[r].vcpus
                /\ kind = "si" => /\ RemoteImage(i) = plan[r].source_image
                                  /\ i.StartCommand = plan[r].start_command
                                  /\ i.HealthcheckPath = plan[r].healthcheck_path

\* A Create or Update of r has ended with the state written.
Written(r) ==
    /\ pc[r] = "idle"
    /\ op[r] \in {"create", "replace", "update"}
    /\ res[r] \in {"created", "replaced", "updated"}
    /\ st[r] # NoState

\* The attributes of kind k that the claim compares with the plan.
Desired(k) ==
    CASE k = "si" -> {"source_image", "source_repo", "build_command",
                      "start_command", "healthcheck_path",
                      "healthcheck_timeout", "sleep_application"}
      [] k \in {"pn", "ep"} -> {"tags"}
      [] OTHER -> {}

\* C31: the state written by a Create or Update that ended without error
\* holds, for every compared attribute whose planned value was known (a value
\* or null), the planned value.
C31_StateEqualsPlan ==
    \A r \in Res :
        Written(r) =>
            \A a \in Desired(kind) :
                ~IsUnknown(plan[r][a]) => st[r][a] = plan[r][a]

\* C32: a state that Create, Update, Read or an import wrote holds no unknown
\* value: id, the computed attributes and every other attribute are a value
\* or null.
C32_NoUnknownInState ==
    \A r \in Res :
        st[r] # NoState => \A a \in Attrs(kind) : ~IsUnknown(st[r][a])

\* A Create of a service instance planned with unknown builder and restart
\* policy has written the state.
C32_Witness ==
    /\ kind = "si"
    /\ Written(1)
    /\ IsUnknown(plan[1].id)
    /\ IsUnknown(plan[1].builder)
    /\ IsUnknown(plan[1].restart_policy_type)
    /\ ~IsUnknown(st[1].builder)
    /\ ~IsUnknown(st[1].id)

\* The Read of r has ended without error and has found the resource.
ReadDone(r) ==
    /\ Finished(r, "read")
    /\ diag[r] = ""
    /\ res[r] \in {"unchanged", "drifted"}
    /\ st[r] # NoState

\* The input of the query that a Read of data issues.
ReadQuery(k, data) ==
    CASE k = "pn" -> ValueString(data.environment_id)
      [] k = "ep" -> <<ValueString(data.environment_id),
                       ValueString(data.private_network_id),
                       ValueString(data.service_id)>>
      [] k = "si" -> <<ValueString(data.environment_id),
                       ValueString(data.service_id)>>

\* The state that a Read of data sets when its query is answered by response.
ReadResult(k, data, response) ==
    CASE k = "pn" -> PrivateNetworkReadResult(data, response.v)
      [] k = "ep" -> PrivateNetworkEndpointReadResult(data, response)
      [] k = "si" -> readServiceInstance(data, response.v)
      [] k = "sl" -> ServiceLimitsReadResult(data)

\* C33: a Read that follows a Read, the remote resources being as they were,
\* issues the same query and, given the same response, sets the state the
\* first Read set: it changes nothing and reports no drift.
C33_ReadIdempotent ==
    \A r \in Res :
        ReadDone(r) =>
            IF kind = "sl"
            THEN /\ ServiceLimitsReadResult(st[r]) = st[r]
                 /\ Observed(st[r], ServiceLimitsReadResult(st[r])) = "unchanged"
            ELSE LET call == calls[r][1]
                     again == ReadResult(kind, st[r], call.response)
                 IN  /\ ReadQuery(kind, st[r]) = call.input
                     /\ again = st[r]
                     /\ Observed(st[r], again) = "unchanged"

\* A Read has found the resource changed and has refreshed the state.
C33_Witness ==
    \E r \in Res :
        /\ ReadDone(r)
        /\ res[r] = "drifted"
        /\ st[r] # prior[r]

\* The only cycles of the run are the Creates of r and q, which both ended
\* with the state written, from plans of one natural key.
CreatedAlike(r, q) ==
    /\ kind = "ep"
    /\ q # r
    /\ ops = 2
    /\ faults = 0
    /\ Finished(r, "create") /\ res[r] = "created"
    /\ Finished(q, "create") /\ res[q] = "created"
    /\ NaturalKey(kind, plan[r]) = NaturalKey(kind, plan[q])

\* The managed endpoints other than r's that have the id of r's.
Sharing(r) ==
    {q \in Res \ {r} : st[q] # NoState /\ st[q].id = st[r].id}

\* r has deleted without error, in a Delete or in the Delete of a
\* replacement, the endpoint whose id the state of q holds.
SharedDeleted(r, q) ==
    /\ kind = "ep"
    /\ q # r
    /\ op[r] \in {"delete", "replace"}
    /\ calls[r] # <<>>
    /\ calls[r][1].fn = "deletePrivateNetworkEndpoint"
    /\ calls[r][1].err = ""
    /\ prior[r] # NoState
    /\ st[q] # NoState
    /\ st[q].id = prior[r].id

\* The step in which the Read of q is answered without error, q holding the
\* id of the endpoint that r has deleted.
ReadAfterSharedDelete(r, q) ==
    /\ SharedDeleted(r, q)
    /\ ReadStep(q)
    /\ Len(calls'[q]) = 1
    /\ calls'[q][1].err = ""

\* C34: two endpoints created from plans of one natural key hold the same
\* id; a Delete by one of them that returns without error removes the shared
\* remote endpoint; and the next Read of the other one removes it from the
\* state, with changeKind removed and no error.
C34_SharedEndpoint ==
    /\ [](\A r, q \in Res : CreatedAlike(r, q) => st[r].id = st[q].id)
    /\ [][\A r \in Res :
            /\ EndpointDeleted(r) =>
                  \A q \in Sharing(r) : ValueString(st[q].id) \notin RemoteIds'
            /\ \A q \in Res :
                  ReadAfterSharedDelete(r, q) =>
                      /\ st'[q] = NoState
                      /\ res'[q] = "removed"
                      /\ diag'[q] = ""]_vars

\* The environments of the project created the earliest.
Oldest(p) ==
    {e \in p.Environments : \A f \in p.Environments : e.CreatedAt <= f.CreatedAt}

\* C35: in the state that the Read of the project data source sets,
\* default_environment_id is the id of an environment of the project created
\* no later than any other, and null exactly when the project has no
\* environment; workspace_id is the id of the project's workspace, and null
\* exactly when the project has none.
C35_DefaultIsOldest ==
    dataSource.data # NoState =>
        LET data == dataSource.data IN
        /\ IsNull(data.default_environment_id) <=> remoteProject.Environments = {}
        /\ ~IsNull(data.default_environment_id) =>
                \E e \in Oldest(remoteProject) :
                    data.default_environment_id = V(e.Id)
        /\ IsNull(data.workspace_id) <=> IsNull(remoteProject.Workspace)
        /\ ~IsNull(data.workspace_id) =>
                data.workspace_id = V(remoteProject.Workspace.v.Id)

\* The data source was read of a project with two environments created at
\* different times, without workspace.
C35_Witness ==
    /\ dataSource.data # NoState
    /\ Cardinality(remoteProject.Environments) = 2
    /\ Cardinality(Oldest(remoteProject)) = 1
    /\ IsNull(remoteProject.Workspace)
    /\ ~IsNull(dataSource.data.default_environment_id)

\* The script has reported its success and has ended with status 0.
Published ==
    /\ script.at = "exited"
    /\ script.status = V(0)
    /\ \E i \in DOMAIN script.out : script.out[i] = "Successfully published"

\* The .zip entries of SHA256SUMS.
ZipEntries == {sums[i] : i \in {j \in DOMAIN sums : IsZip(sums[j])}}

\* C36: when the publish script has reported "Successfully published" and
\* ended with status 0, the provider version was created, both checksum
\* files were uploaded, and the platform of every .zip entry of SHA256SUMS
\* was created and its binary uploaded.
C36_SuccessMeansPublished ==
    Published =>
        /\ registry.version
        /\ registry.shasums
        /\ registry.sig
        /\ \A f \in ZipEntries : f \in registry.platforms /\ f \in registry.binaries

====
